---- MODULE Spec2Model ----
(***************************************************************************)
(* Model of the structural dependency and coupling engine                  *)
(* (app.DependencyExtractor.analyzeProject and its helpers) and of the     *)
(* metric extractor (app.MetricExtractor, CodeParser, MetricCollector).    *)
(*                                                                         *)
(* Names are Java strings and are kept as strings; the string functions    *)
(* the code calls (replaceAll, replace, trim, startsWith, endsWith,        *)
(* String.hashCode) are computed character by character.  The registry is  *)
(* a java.util.HashMap: it is kept as the sequence of its entries in the   *)
(* order HashMap iterates over them, computed from the keys' hash codes.   *)
(*                                                                         *)
(* ClassInfo.filePath, isInterface and isAbstract are written once by the  *)
(* constructor block of pass 1 and read by nothing in analyzeProject; the  *)
(* model leaves them out of the record.                                    *)
(***************************************************************************)
EXTENDS Integers, Sequences, FiniteSets, TLC

(***************************************************************************)
(* Bounds.                                                                 *)
(***************************************************************************)
MaxFiles == 2

MaxChain == 11

MaxImports == 2

(***************************************************************************)
(* java.lang.String                                                        *)
(***************************************************************************)
CharAt(s, k) == SubSeq(s, k, k)

StartsWith(s, p) == Len(s) >= Len(p) /\ SubSeq(s, 1, Len(p)) = p

EndsWith(s, p) == Len(s) >= Len(p) /\ SubSeq(s, Len(s) - Len(p) + 1, Len(s)) = p

\* Character codes of the characters that occur in class names: the ASCII
\* run from '.' (46) to 'Z' (90), and the lower-case letters from 'a' (97).
AsciiFromDot == "./0123456789:;<=>?@ABCDEFGHIJKLMNOPQRSTUVWXYZ"

AsciiLower == "abcdefghijklmnopqrstuvwxyz"

\* First index of character c in s, 0 when absent.
RECURSIVE IndexOfFrom(_, _, _)
IndexOfFrom(s, c, k) ==
    IF k > Len(s) THEN 0
    ELSE IF CharAt(s, k) = c THEN k
    ELSE IndexOfFrom(s, c, k + 1)

CharCode(c) ==
    LET lower == IndexOfFrom(AsciiLower, c, 1)
    IN  IF lower > 0 THEN 96 + lower ELSE 45 + IndexOfFrom(AsciiFromDot, c, 1)

\* String.hashCode: h = 31*h + c over the characters, in 32-bit arithmetic.
\* The 32-bit value is kept as its two 16-bit halves <<hi, lo>>.
RECURSIVE HashFrom(_, _, _)
HashFrom(s, k, h) ==
    IF k > Len(s) THEN h
    ELSE LET lo == 31 * h[2] + CharCode(CharAt(s, k))
             hi == 31 * h[1] + (lo \div 65536)
         IN  HashFrom(s, k + 1, <<hi % 65536, lo % 65536>>)

hashCode(s) == HashFrom(s, 1, <<0, 0>>)

\* Bitwise exclusive or of two naturals.
RECURSIVE Xor(_, _)
Xor(a, b) ==
    IF a = 0 THEN b
    ELSE IF b = 0 THEN a
    ELSE 2 * Xor(a \div 2, b \div 2) + ((a + b) % 2)

\* Last index of character c in s, 0 when absent.
RECURSIVE LastIndexOfFrom(_, _, _)
LastIndexOfFrom(s, c, k) ==
    IF k < 1 THEN 0
    ELSE IF CharAt(s, k) = c THEN k
    ELSE LastIndexOfFrom(s, c, k - 1)

\* typeName.replaceAll("<.*>", ""): the pattern is greedy, so the one match
\* runs from the first '<' to the last '>' after it.
RemoveGenerics(s) ==
    LET open  == IndexOfFrom(s, "<", 1)
        close == LastIndexOfFrom(s, ">", Len(s))
    IN  IF open > 0 /\ close > open
        THEN SubSeq(s, 1, open - 1) \o SubSeq(s, close + 1, Len(s))
        ELSE s

\* typeName.replace("[]", ""): every occurrence, left to right.
RECURSIVE RemoveBrackets(_)
RemoveBrackets(s) ==
    IF Len(s) = 0 THEN s
    ELSE IF StartsWith(s, "[]") THEN RemoveBrackets(SubSeq(s, 3, Len(s)))
    ELSE CharAt(s, 1) \o RemoveBrackets(SubSeq(s, 2, Len(s)))

\* String.trim
RECURSIVE Trim(_)
Trim(s) ==
    IF Len(s) = 0 THEN s
    ELSE IF CharAt(s, 1) = " " THEN Trim(SubSeq(s, 2, Len(s)))
    ELSE IF CharAt(s, Len(s)) = " " THEN Trim(SubSeq(s, 1, Len(s) - 1))
    ELSE s

(***************************************************************************)
(* java.util.HashMap / HashSet with String keys                            *)
(***************************************************************************)
\* Index of the bin of key s in a table of the default capacity 16:
\* (h ^ (h >>> 16)) & 15.  The table keeps this capacity as long as it holds
\* at most 12 keys, which no registry of the projects below exceeds.
BucketOf(s) == LET h == hashCode(s) IN Xor(h[2] % 16, h[1] % 16)

\* Stable insertion of x into a sequence that is ascending by rank: x goes
\* after every element whose rank is not larger.
RECURSIVE InsertByRank(_, _, _)
InsertByRank(sorted, x, rank) ==
    IF sorted = <<>> THEN <<x>>
    ELSE IF rank[x] < rank[Head(sorted)] THEN <<x>> \o sorted
    ELSE <<Head(sorted)>> \o InsertByRank(Tail(sorted), x, rank)

\* Stable sort, ascending by rank: elements of equal rank keep their order.
RECURSIVE StableSort(_, _)
StableSort(seq, rank) ==
    IF seq = <<>> THEN <<>>
    ELSE InsertByRank(StableSort(SubSeq(seq, 1, Len(seq) - 1), rank),
                      seq[Len(seq)], rank)

Range(seq) == { seq[k] : k \in 1..Len(seq) }

\* HashSet.add of each element of xs to the insertion-ordered set acc.
RECURSIVE AddAll(_, _)
AddAll(acc, xs) ==
    IF xs = <<>> THEN acc
    ELSE AddAll(IF Head(xs) \in Range(acc) THEN acc ELSE Append(acc, Head(xs)),
                Tail(xs))

\* Iteration order of a HashSet<String>: bins in index order, and inside a
\* bin the order of insertion.
HashSetOrder(inserted) ==
    StableSort(inserted, [s \in Range(inserted) |-> BucketOf(s)])

(***************************************************************************)
(* The registry: Map<String, ClassInfo> classMap, keyed by className.      *)
(* A map is the sequence of its values as they lie in the hash table: bins *)
(* in index order, and inside a bin the order in which the keys were first *)
(* inserted.                                                               *)
(***************************************************************************)
\* The null reference, as a string no Java name equals.
Null == "<null>"

containsKey(m, k) == \E x \in 1..Len(m) : m[x].className = k

get(m, k) == m[CHOOSE x \in 1..Len(m) : m[x].className = k]

\* Variant: the value of an existing key is kept (putIfAbsent).
putIfAbsent(m, k, v) ==
    IF containsKey(m, k) THEN m
    ELSE InsertByRank(m, v, [r \in Range(m) \cup {v} |-> BucketOf(r.className)])

\* HashMap.put: an existing key keeps its place in the table and has its
\* value replaced; a new key goes to the end of its bin.
put(m, k, v) ==
    IF containsKey(m, k)
    THEN [x \in 1..Len(m) |-> IF m[x].className = k THEN v ELSE m[x]]
    ELSE InsertByRank(m, v, [r \in Range(m) \cup {v} |-> BucketOf(r.className)])

keySet(m) == { m[x].className : x \in 1..Len(m) }

\* HashMap.values() in iteration order: the order of the table.
values(m) == m

(***************************************************************************)
(* resolveType and isPrimitive                                             *)
(***************************************************************************)
\* Variant: only the keywords of the language are excluded.
isPrimitiveKeywordsOnly(type) ==
    type \in {"int", "long", "double", "float", "boolean", "char",
              "byte", "short", "void"}

isPrimitive(type) ==
    type \in {"int", "long", "double", "float", "boolean", "char",
              "byte", "short", "void", "String", "Object"}

\* The normalisation at the head of resolveType.
Normalize(typeName) == Trim(RemoveBrackets(Trim(RemoveGenerics(typeName))))

\* The first import, in declaration order, that ends with "." + typeName and
\* is a key of the registry; Null when there is none.
RECURSIVE CheckImports(_, _, _)
CheckImports(typeName, imports, m) ==
    IF imports = <<>> THEN Null
    ELSE IF EndsWith(Head(imports), "." \o typeName) /\ containsKey(m, Head(imports))
         THEN Head(imports)
    ELSE CheckImports(typeName, Tail(imports), m)

\* A resolver that never consults the imports.
resolveTypeNoImports(rawName, currentPackage, imports, m) ==
    LET typeName    == Normalize(rawName)
        withPackage == IF currentPackage = "" THEN typeName
                       ELSE currentPackage \o "." \o typeName
    IN  IF isPrimitive(typeName) \/ StartsWith(typeName, "java.")
           \/ StartsWith(typeName, "javax.")
        THEN Null
        ELSE IF containsKey(m, typeName) THEN typeName
        ELSE IF containsKey(m, withPackage) THEN withPackage
        ELSE Null

\* A resolver that takes every remaining name for a class of the current
\* package.
resolveTypeAssumeSamePackage(rawName, currentPackage, imports, m) ==
    LET typeName    == Normalize(rawName)
        withPackage == IF currentPackage = "" THEN typeName
                       ELSE currentPackage \o "." \o typeName
    IN  IF isPrimitive(typeName) \/ StartsWith(typeName, "java.")
           \/ StartsWith(typeName, "javax.")
        THEN Null
        ELSE IF containsKey(m, typeName) THEN typeName
        ELSE withPackage

\* A resolver that consults the imports before the current package.
resolveTypeImportsFirst(rawName, currentPackage, imports, m) ==
    LET typeName    == Normalize(rawName)
        withPackage == IF currentPackage = "" THEN typeName
                       ELSE currentPackage \o "." \o typeName
        imported    == CheckImports(typeName, imports, m)
    IN  IF isPrimitive(typeName) \/ StartsWith(typeName, "java.")
           \/ StartsWith(typeName, "javax.")
        THEN Null
        ELSE IF containsKey(m, typeName) THEN typeName
        ELSE IF imported # Null THEN imported
        ELSE IF containsKey(m, withPackage) THEN withPackage
        ELSE Null

resolveType(rawName, currentPackage, imports, m) ==
    LET typeName    == Normalize(rawName)
        withPackage == IF currentPackage = "" THEN typeName
                       ELSE currentPackage \o "." \o typeName
    IN  IF isPrimitive(typeName) \/ StartsWith(typeName, "java.")
           \/ StartsWith(typeName, "javax.")
        THEN Null
        ELSE IF containsKey(m, typeName) THEN typeName
        ELSE IF containsKey(m, withPackage) THEN withPackage
        ELSE CheckImports(typeName, imports, m)

(***************************************************************************)
(* What the parser reports of a source file (CompilationUnit)              *)
(***************************************************************************)
\* packageName.isEmpty() ? name : packageName + "." + name
FullClassName(packageName, name) ==
    IF packageName = "" THEN name ELSE packageName \o "." \o name

\* Flattening of a sequence of sequences.
RECURSIVE Flatten(_)
Flatten(ss) == IF ss = <<>> THEN <<>> ELSE Head(ss) \o Flatten(Tail(ss))

\* The type names of class cls in the order the dependency collection reads
\* them: extended types, implemented types, field types, and per method the
\* return type followed by the parameter types.
TypeReferences(cls) ==
    cls.extendedTypes \o cls.implementedTypes \o cls.fields
    \o Flatten([x \in 1..Len(cls.methods) |->
                  <<cls.methods[x].type>> \o cls.methods[x].parameters])

IsInternal(m, typeName) == typeName # Null /\ containsKey(m, typeName)

\* Variant: a class is never a dependency of itself.
CollectDependenciesWithoutSelf(cu, cls, m) ==
    LET refs     == TypeReferences(cls)
        resolved == [x \in 1..Len(refs) |->
                       resolveType(refs[x], cu.packageName, cu.imports, m)]
    IN  SelectSeq(AddAll(AddAll(<<>>, SelectSeq(cu.imports,
                                                LAMBDA imp : containsKey(m, imp))),
                         SelectSeq(resolved, LAMBDA t : IsInternal(m, t))),
                  LAMBDA t : t # FullClassName(cu.packageName, cls.name))

\* Variant: the classes of the package of the file are dependencies too.
CollectDependenciesWithPackageMates(cu, cls, m) ==
    LET refs     == TypeReferences(cls)
        resolved == [x \in 1..Len(refs) |->
                       resolveType(refs[x], cu.packageName, cu.imports, m)]
        mates    == [x \in 1..Len(m) |-> m[x].className]
    IN  AddAll(AddAll(AddAll(<<>>, SelectSeq(cu.imports, LAMBDA imp : containsKey(m, imp))),
                      SelectSeq(resolved, LAMBDA t : IsInternal(m, t))),
               SelectSeq(mates, LAMBDA k : k = FullClassName(cu.packageName, k)
                                           \/ StartsWith(k, cu.packageName \o ".")))

\* The HashSet `dependencies` of one class after the collection, as the
\* sequence of its elements in insertion order: the imports that are registry
\* keys, then the resolved type references that are registry keys.
CollectDependencies(cu, cls, m) ==
    LET refs     == TypeReferences(cls)
        resolved == [x \in 1..Len(refs) |->
                       resolveType(refs[x], cu.packageName, cu.imports, m)]
    IN  AddAll(AddAll(<<>>, SelectSeq(cu.imports, LAMBDA imp : containsKey(m, imp))),
               SelectSeq(resolved, LAMBDA t : IsInternal(m, t)))

\* new ClassInfo() as filled in by pass 1.
NewClassInfo(cu, cls) ==
    [ className         |-> FullClassName(cu.packageName, cls.name),
      simpleName        |-> cls.name,
      packageName       |-> cu.packageName,
      methodCount       |-> Len(cls.methods),
      fieldCount        |-> Len(cls.fields),
      dependsOn         |-> <<>>,
      dependedByClasses |-> <<>>,
      couplingOut       |-> 0,
      couplingIn        |-> 0 ]

getTotalCoupling(c) == c.couplingOut + c.couplingIn

(***************************************************************************)
(* The projects the engine is run on.                                      *)
(***************************************************************************)
\* Package declaration and imports of a file: the default package without
\* imports, the default package importing p.B, and package p.
Headers ==
    { [ packageName |-> "",  imports |-> <<>> ],
      [ packageName |-> "",  imports |-> <<"p.B">> ],
      [ packageName |-> "p", imports |-> <<>> ] }

NoMembers ==
    [ extendedTypes |-> <<>>, implementedTypes |-> <<>>,
      fields |-> <<>>, methods |-> <<>> ]

\* A field of type B.
FieldB == [NoMembers EXCEPT !.fields = <<"B">>]

\* A supertype A and a method List<B> m(int).
ExtendsA ==
    [NoMembers EXCEPT !.extendedTypes = <<"A">>,
                      !.methods = << [name |-> "m", type |-> "List<B>",
                                      parameters |-> <<"int">>, fieldAccess |-> {},
                                      calls |-> {}, created |-> <<>>] >>]

\* An external interface Ext, a String field and a method void m(p.A[], B).
ImplementsExt ==
    [NoMembers EXCEPT !.implementedTypes = <<"Ext">>,
                      !.fields = <<"String">>,
                      !.methods = << [name |-> "m", type |-> "void",
                                      parameters |-> <<"p.A[]", "B">>, fieldAccess |-> {},
                                      calls |-> {}, created |-> <<>>] >>]

\* A method void m() whose body holds the expression new B().
CreatesB ==
    [NoMembers EXCEPT !.methods = << [name |-> "m", type |-> "void",
                                      parameters |-> <<>>, fieldAccess |-> {},
                                      calls |-> {}, created |-> <<"B">>] >>]

ClassDecl(name, members) ==
    [ name |-> name,
      extendedTypes |-> members.extendedTypes,
      implementedTypes |-> members.implementedTypes,
      fields |-> members.fields,
      methods |-> members.methods ]

ClassDecls ==
    { ClassDecl("A", mb) : mb \in {NoMembers, FieldB, ImplementsExt, CreatesB} }
    \cup { ClassDecl("B", mb) : mb \in {NoMembers, FieldB, ExtendsA} }

\* The class declarations of one file, in declaration order: one class, or
\* two classes (the second nested or a second top-level class), which may
\* carry the same simple name when they are nested in different classes.
ClassLists ==
    { <<c>> : c \in ClassDecls }
    \cup { << ClassDecl("A", FieldB), ClassDecl("B", FieldB) >>,
           << ClassDecl("B", NoMembers), ClassDecl("B", FieldB) >> }

\* A file StaticJavaParser.parse rejects.
Malformed ==
    [ parses |-> FALSE, packageName |-> "", imports |-> <<>>, classes |-> <<>> ]

SourceFiles ==
    { Malformed }
    \cup { [ parses |-> TRUE, packageName |-> hd.packageName,
               imports |-> hd.imports, classes |-> cl ] :
             hd \in Headers, cl \in ClassLists }

RECURSIVE SeqsUpTo(_, _)
SeqsUpTo(S, n) ==
    IF n = 0 THEN { <<>> }
    ELSE LET shorter == SeqsUpTo(S, n - 1)
         IN  shorter \cup { Append(q, x) : q \in shorter, x \in S }

\* The k-th upper-case letter.
Letter(k) == CharAt(AsciiFromDot, 19 + k)

\* A project of n files in the default package, file k declaring the one
\* class Letter(k); the first m classes each hold a field of the type of the
\* next class.
ChainFiles(n, m) ==
    [ k \in 1..n |->
        [ parses |-> TRUE, packageName |-> "", imports |-> <<>>,
          classes |-> << ClassDecl(Letter(k),
                           IF k <= m THEN [NoMembers EXCEPT !.fields = <<Letter(k + 1)>>]
                           ELSE NoMembers) >> ] ]

\* A project directory: it exists or not, and an existing one holds the
\* eligible source files in the order Files.walk lists them.  The projects
\* are all those of at most MaxFiles files, and the chains of at most
\* MaxChain classes.
Projects ==
    { [ exists |-> FALSE, files |-> <<>> ] }
    \cup { [ exists |-> TRUE, files |-> fs ] : fs \in SeqsUpTo(SourceFiles, MaxFiles) }
    \cup { [ exists |-> TRUE, files |-> ChainFiles(n, m) ] :
             n \in 3..MaxChain, m \in 0..(MaxChain - 1) }

(***************************************************************************)
(* State of one run of analyzeProject                                      *)
(***************************************************************************)
VARIABLES
    project,     \* the input: the project directory
    pc,          \* position in analyzeProject
    javaFiles,   \* List<File> javaFiles
    i, j,        \* the loop positions: file and class (passes 1 and 2),
                 \* class and dependency (pass 3)
    classMap,    \* Map<String, ClassInfo> classMap
    classList,   \* List<ClassInfo> classList
    result,      \* AnalysisResult result
    outcome,     \* "running", "returned" or "thrown"
    warnings,    \* the warnings written to System.err
    assigned     \* history: the className of every record whose dependsOn
                 \* was assigned, one entry per assignment

\* One call of resolveType on its own.
VARIABLES
    rTypeName,   \* the arguments: typeName,
    rPackage,    \* currentPackage,
    rImports,    \* imports,
    rClassMap,   \* classMap
    rReturn      \* "<pending>" until the call has returned, then its value

resolverVars == << rTypeName, rPackage, rImports, rClassMap, rReturn >>

\* No call of resolveType on its own.
ResolverIdle ==
    /\ rTypeName = ""
    /\ rPackage = ""
    /\ rImports = <<>>
    /\ rClassMap = <<>>
    /\ rReturn = "<idle>"

\* One run of MetricExtractor.main.
VARIABLES
    mProject,    \* the input: the project directory
    mpc,         \* position in main
    mJavaFiles,  \* List<File> javaFiles
    mIndex,      \* position of the for loop over javaFiles
    metrics,     \* Map<String, Map<String, Object>> metrics
    mErr         \* the lines written to System.err

metricVars == << mProject, mpc, mJavaFiles, mIndex, metrics, mErr >>

\* No run of the metric extractor.
MetricsIdle ==
    /\ mProject = [ exists |-> FALSE, directory |-> FALSE, files |-> <<>> ]
    /\ mpc = "idle"
    /\ mJavaFiles = <<>>
    /\ mIndex = 1
    /\ metrics = <<>>
    /\ mErr = <<>>

\* What an earlier run of the engine on the same machine left behind.
VARIABLES firstRun

\* There was no earlier run.
NoEarlierRun == [ input |-> "<none>" ]

\* One decision of the file selection of the two programs on one path.
VARIABLES
    selPath,     \* the path Files.walk (listFiles) has met
    selState,    \* "idle", "pending" or "decided"
    selEngine,   \* whether DependencyExtractor.findJavaFiles keeps the path
    selMetric    \* whether MetricExtractor.findJavaFiles keeps the path

selectVars == << selPath, selState, selEngine, selMetric >>

\* No file selection on its own.
SelectIdle ==
    /\ selPath = [ absolute |-> TRUE, directories |-> <<>>, name |-> "", kind |-> "directory" ]
    /\ selState = "idle"
    /\ selEngine = FALSE
    /\ selMetric = FALSE

\* One run of a program from the command line.
VARIABLES
    cliProgram,  \* "DependencyExtractor" or "MetricExtractor"
    cliArgs,     \* String[] args: the paths given, as what lies at each path
    cliState,    \* "idle", "main" (started), "running" (past the argument
                 \* check) or "exited"
    cliStdout,   \* what was printed to System.out: the analyses
    cliStderr,   \* what was printed to System.err by main
    cliExit      \* the exit status, once exited

cliVars == << cliProgram, cliArgs, cliState, cliStdout, cliStderr, cliExit >>

\* No run from the command line.
CliIdle ==
    /\ cliProgram = "DependencyExtractor"
    /\ cliArgs = <<>>
    /\ cliState = "idle"
    /\ cliStdout = <<>>
    /\ cliStderr = <<>>
    /\ cliExit = 0

\* The desktop application: the renderer's start screen and results screen,
\* and the calls of the main process it has in flight.
VARIABLES
    screen,       \* "none", "start" (the page as loaded) or "results"
                  \* (after displayResults)
    selectedPath, \* let selectedPath: string | null
    pathSpan,     \* pathSpan.textContent
    loadBtn,      \* loadBtn.disabled and loadBtn.textContent
    pickers,      \* the open-folder-picker calls in flight: for each one
                  \* whether the page that made it is still loaded
    analyses,     \* the analyze-project calls in flight
    displayed,    \* the result displayResults has drawn
    electronAPI,  \* the names the preload script has exposed
    exportCalls,  \* the export-results calls in flight
    disk,         \* the files written by the main process
    exportLog,    \* history: every export-results call that has returned
    alerts        \* the text of the last alert

appVars == << screen, selectedPath, pathSpan, loadBtn, pickers, analyses,
              displayed, electronAPI, exportCalls, disk, exportLog, alerts >>

\* The application is not running.
AppIdle ==
    /\ screen = "none"
    /\ selectedPath = "<null>"
    /\ pathSpan = ""
    /\ loadBtn = [ disabled |-> TRUE, textContent |-> "" ]
    /\ pickers = <<>>
    /\ analyses = <<>>
    /\ displayed = "<null>"
    /\ electronAPI = {}
    /\ exportCalls = <<>>
    /\ disk = {}
    /\ exportLog = <<>>
    /\ alerts = ""

laterVars == << selectVars, cliVars, appVars >>

LaterIdle == SelectIdle /\ CliIdle /\ AppIdle

otherRuns == << resolverVars, metricVars, firstRun, laterVars >>

vars == << project, pc, javaFiles, i, j, classMap, classList, result,
           outcome, warnings, assigned, otherRuns >>

\* A double that is the quotient of two ints, kept exact.
Quotient(num, den) == [ num |-> num, den |-> den ]

\* new AnalysisResult()
NewAnalysisResult ==
    [ totalClasses |-> 0, averageCoupling |-> Quotient(0, 1), maxCoupling |-> 0,
      highlyCoupledClasses |-> 0, classes |-> <<>> ]

Init ==
    /\ project \in Projects
    /\ pc = "findJavaFiles"
    /\ javaFiles = <<>>
    /\ i = 1
    /\ j = 1
    /\ classMap = <<>>
    /\ classList = <<>>
    /\ result = NewAnalysisResult
    /\ outcome = "running"
    /\ warnings = <<>>
    /\ assigned = <<>>
    /\ ResolverIdle
    /\ MetricsIdle
    /\ firstRun = NoEarlierRun
    /\ LaterIdle

\* findJavaFiles: Files.walk throws when the directory does not exist, and
\* analyzeProject passes the exception on to its caller.
FindJavaFiles ==
    /\ pc = "findJavaFiles"
    /\ IF project.exists
       THEN /\ javaFiles' = project.files
            /\ pc' = "pass1"
            /\ UNCHANGED outcome
       ELSE /\ outcome' = "thrown"
            /\ pc' = "done"
            /\ UNCHANGED javaFiles
    /\ UNCHANGED << project, i, j, classMap, classList, result, warnings, assigned >>
    /\ UNCHANGED otherRuns

(***************************************************************************)
(* Pass 1: build the map of all internal classes                           *)
(***************************************************************************)
\* Variant: the exception of the parser is not caught and ends the run.
Pass1ParseFailureAborting ==
    /\ pc = "pass1"
    /\ i <= Len(javaFiles)
    /\ ~javaFiles[i].parses
    /\ outcome' = "thrown"
    /\ pc' = "done"
    /\ UNCHANGED << project, javaFiles, i, j, classMap, classList, result, warnings, assigned >>
    /\ UNCHANGED otherRuns

\* StaticJavaParser.parse throws: the catch block warns, the loop goes on.
Pass1ParseFailure ==
    /\ pc = "pass1"
    /\ i <= Len(javaFiles)
    /\ ~javaFiles[i].parses
    /\ warnings' = Append(warnings, "Could not parse")
    /\ i' = i + 1
    /\ j' = 1
    /\ UNCHANGED << project, pc, javaFiles, classMap, classList, result, outcome, assigned >>
    /\ UNCHANGED otherRuns

\* One class of the file: classMap.put(fullClassName, classInfo).
Pass1Put ==
    /\ pc = "pass1"
    /\ i <= Len(javaFiles)
    /\ javaFiles[i].parses
    /\ j <= Len(javaFiles[i].classes)
    /\ LET cu  == javaFiles[i]
           cls == cu.classes[j]
       IN  classMap' = put(classMap, FullClassName(cu.packageName, cls.name),
                           NewClassInfo(cu, cls))
    /\ j' = j + 1
    /\ UNCHANGED << project, pc, javaFiles, i, classList, result, outcome, warnings, assigned >>
    /\ UNCHANGED otherRuns

Pass1EndOfFile ==
    /\ pc = "pass1"
    /\ i <= Len(javaFiles)
    /\ javaFiles[i].parses
    /\ j > Len(javaFiles[i].classes)
    /\ i' = i + 1
    /\ j' = 1
    /\ UNCHANGED << project, pc, javaFiles, classMap, classList, result, outcome, warnings, assigned >>
    /\ UNCHANGED otherRuns

\* Variant: pass 1 is left once its first file is done.
Pass1EndEarly ==
    /\ pc = "pass1"
    /\ i > 1
    /\ j = 1
    /\ pc' = "pass2"
    /\ i' = 1
    /\ j' = 1
    /\ UNCHANGED << project, javaFiles, classMap, classList, result, outcome, warnings, assigned >>
    /\ UNCHANGED otherRuns

Pass1End ==
    /\ pc = "pass1"
    /\ i > Len(javaFiles)
    /\ pc' = "pass2"
    /\ i' = 1
    /\ j' = 1
    /\ UNCHANGED << project, javaFiles, classMap, classList, result, outcome, warnings, assigned >>
    /\ UNCHANGED otherRuns

(***************************************************************************)
(* Pass 2: the dependencies of every class                                 *)
(***************************************************************************)
\* Variant: the out-degree is accumulated over the assignments.
AssignDependenciesAccumulating(classInfo, dependencies) ==
    [classInfo EXCEPT !.dependsOn   = HashSetOrder(dependencies),
                      !.couplingOut = @ + Len(dependencies)]

\* classInfo.dependsOn = new ArrayList<>(dependencies);
\* classInfo.couplingOut = dependencies.size();
AssignDependencies(classInfo, dependencies) ==
    [classInfo EXCEPT !.dependsOn   = HashSetOrder(dependencies),
                      !.couplingOut = Len(dependencies)]

Pass2ParseFailure ==
    /\ pc = "pass2"
    /\ i <= Len(javaFiles)
    /\ ~javaFiles[i].parses
    /\ warnings' = Append(warnings, "Could not analyze dependencies")
    /\ i' = i + 1
    /\ j' = 1
    /\ UNCHANGED << project, pc, javaFiles, classMap, classList, result, outcome, assigned >>
    /\ UNCHANGED otherRuns

\* One class of the file: the body of the forEach over the declarations.
Pass2Class ==
    /\ pc = "pass2"
    /\ i <= Len(javaFiles)
    /\ javaFiles[i].parses
    /\ j <= Len(javaFiles[i].classes)
    /\ LET cu            == javaFiles[i]
           cls           == cu.classes[j]
           fullClassName == FullClassName(cu.packageName, cls.name)
       IN  IF ~containsKey(classMap, fullClassName)
           THEN UNCHANGED << classMap, assigned >>
           ELSE /\ classMap' =
                      put(classMap, fullClassName,
                          AssignDependencies(get(classMap, fullClassName),
                                             CollectDependencies(cu, cls, classMap)))
                /\ assigned' = Append(assigned, fullClassName)
    /\ j' = j + 1
    /\ UNCHANGED << project, pc, javaFiles, i, classList, result, outcome, warnings >>
    /\ UNCHANGED otherRuns

Pass2EndOfFile ==
    /\ pc = "pass2"
    /\ i <= Len(javaFiles)
    /\ javaFiles[i].parses
    /\ j > Len(javaFiles[i].classes)
    /\ i' = i + 1
    /\ j' = 1
    /\ UNCHANGED << project, pc, javaFiles, classMap, classList, result, outcome, warnings, assigned >>
    /\ UNCHANGED otherRuns

Pass2End ==
    /\ pc = "pass2"
    /\ i > Len(javaFiles)
    /\ pc' = "pass3"
    /\ i' = 1
    /\ j' = 1
    /\ UNCHANGED << project, javaFiles, classMap, classList, result, outcome, warnings, assigned >>
    /\ UNCHANGED otherRuns

(***************************************************************************)
(* Pass 3: the incoming dependencies                                       *)
(***************************************************************************)
\* Variant: a class is not counted as a dependent of itself.
AddIncomingSkipSelf(depClass, className) ==
    IF depClass.className = className THEN depClass
    ELSE [depClass EXCEPT !.dependedByClasses = Append(@, className),
                          !.couplingIn = @ + 1]

\* Variant: the dependent is recorded under the name of the class it
\* depends on.
AddIncomingWrongName(depClass, className) ==
    [depClass EXCEPT !.dependedByClasses = Append(@, depClass.className),
                     !.couplingIn = @ + 1]

\* depClass.dependedByClasses.add(classInfo.className); depClass.couplingIn++;
AddIncoming(depClass, className) ==
    [depClass EXCEPT !.dependedByClasses = Append(@, className),
                     !.couplingIn = @ + 1]

\* One dependency of one class: the body of the inner loop.
Pass3Dependency ==
    /\ pc = "pass3"
    /\ i <= Len(classMap)
    /\ j <= Len(values(classMap)[i].dependsOn)
    /\ LET classInfo  == values(classMap)[i]
           dependency == classInfo.dependsOn[j]
       IN  IF containsKey(classMap, dependency)
           THEN classMap' = put(classMap, dependency,
                                AddIncoming(get(classMap, dependency),
                                            classInfo.className))
           ELSE UNCHANGED classMap
    /\ j' = j + 1
    /\ UNCHANGED << project, pc, javaFiles, i, classList, result, outcome, warnings, assigned >>
    /\ UNCHANGED otherRuns

Pass3NextClass ==
    /\ pc = "pass3"
    /\ i <= Len(classMap)
    /\ j > Len(values(classMap)[i].dependsOn)
    /\ i' = i + 1
    /\ j' = 1
    /\ UNCHANGED << project, pc, javaFiles, classMap, classList, result, outcome, warnings, assigned >>
    /\ UNCHANGED otherRuns

Pass3End ==
    /\ pc = "pass3"
    /\ i > Len(classMap)
    /\ pc' = "sort"
    /\ i' = 1
    /\ j' = 1
    /\ UNCHANGED << project, javaFiles, classMap, classList, result, outcome, warnings, assigned >>
    /\ UNCHANGED otherRuns

(***************************************************************************)
(* Sort and summary                                                        *)
(***************************************************************************)
\* Variant: a sort that is not stable, so that the order of classes of equal
\* coupling differs from one run to the next.
SortByCouplingUnstable(list) ==
    LET taken == IF firstRun = NoEarlierRun THEN list
                 ELSE [x \in 1..Len(list) |-> list[Len(list) + 1 - x]]
    IN  StableSort(taken, [c \in Range(list) |-> 0 - getTotalCoupling(c)])

\* classList.sort((a, b) -> Integer.compare(b.getTotalCoupling(),
\* a.getTotalCoupling())): List.sort is stable.
SortByCoupling(list) ==
    StableSort(list, [c \in Range(list) |-> 0 - getTotalCoupling(c)])

\* new ArrayList<>(classMap.values()), sorted.
SortClasses ==
    /\ pc = "sort"
    /\ classList' = SortByCoupling(values(classMap))
    /\ pc' = "summary"
    /\ UNCHANGED << project, javaFiles, i, j, classMap, result, outcome, warnings, assigned >>
    /\ UNCHANGED otherRuns

RECURSIVE SumCoupling(_)
SumCoupling(list) ==
    IF list = <<>> THEN 0 ELSE getTotalCoupling(Head(list)) + SumCoupling(Tail(list))

\* Variant: the division is the division of ints.
AverageCouplingIntDivision(list) ==
    IF list = <<>> THEN Quotient(0, 1) ELSE Quotient(SumCoupling(list) \div Len(list), 1)

\* classList.isEmpty() ? 0 : (double) totalCoupling / classList.size()
AverageCoupling(list) ==
    IF list = <<>> THEN Quotient(0, 1) ELSE Quotient(SumCoupling(list), Len(list))

\* mapToInt(getTotalCoupling).max().orElse(0)
MaxCoupling(list) ==
    IF list = <<>> THEN 0
    ELSE LET totals == { getTotalCoupling(list[x]) : x \in 1..Len(list) }
         IN  CHOOSE t \in totals : \A u \in totals : u <= t

\* Variant: the fifth is rounded down.
ThresholdFloor(size) == size \div 5

\* (int) Math.ceil(size * 0.2).  The double 0.2 is 1/5 + 1/(5 * 2^54); the
\* product of an int with it rounds to the exact fifth when the int is a
\* multiple of 5 and stays strictly between two integers otherwise, so its
\* ceiling is the ceiling of size / 5.
Threshold(size) == (size + 4) \div 5

\* stream().limit(threshold).filter(c -> c.getTotalCoupling() > 0).count()
HighlyCoupled(list) ==
    LET limit == IF Threshold(Len(list)) < Len(list) THEN Threshold(Len(list))
                 ELSE Len(list)
    IN  Cardinality({ x \in 1..limit : getTotalCoupling(list[x]) > 0 })

Summary ==
    /\ pc = "summary"
    /\ result' = [ totalClasses         |-> Len(classList),
                   averageCoupling      |-> AverageCoupling(classList),
                   maxCoupling          |-> MaxCoupling(classList),
                   highlyCoupledClasses |-> HighlyCoupled(classList),
                   classes              |-> classList ]
    /\ outcome' = "returned"
    /\ pc' = "done"
    /\ UNCHANGED << project, javaFiles, i, j, classMap, classList, warnings, assigned >>
    /\ UNCHANGED otherRuns

Next ==
    \/ FindJavaFiles
    \/ Pass1ParseFailure
    \/ Pass1Put
    \/ Pass1EndOfFile
    \/ Pass1End
    \/ Pass2ParseFailure
    \/ Pass2Class
    \/ Pass2EndOfFile
    \/ Pass2End
    \/ Pass3Dependency
    \/ Pass3NextClass
    \/ Pass3End
    \/ SortClasses
    \/ Summary

Spec == Init /\ [][Next]_vars

(***************************************************************************)
(* Properties                                                              *)
(***************************************************************************)
Returned == pc = "done" /\ outcome = "returned"

RECURSIVE SumOf(_, _)
SumOf(list, field) ==
    IF list = <<>> THEN 0
    ELSE (CASE field = "out"   -> Head(list).couplingOut
            [] field = "in"    -> Head(list).couplingIn
            [] field = "edges" -> Cardinality(Range(Head(list).dependsOn)))
         + SumOf(Tail(list), field)

\* The (class, dependency) pairs of a list of records.
EdgePairs(list) ==
    UNION { { <<list[x].className, d>> : d \in Range(list[x].dependsOn) } :
            x \in 1..Len(list) }

NoDuplicates(seq) == \A x, y \in 1..Len(seq) : seq[x] = seq[y] => x = y

\* C1: in the result of analyzeProject the sum of couplingOut over all
\* classes equals the sum of couplingIn over all classes, and both equal the
\* number of (class, dependency) pairs, the sum of |dependsOn|.
C1_EdgeSymmetry ==
    Returned =>
        /\ SumOf(result.classes, "out") = SumOf(result.classes, "in")
        /\ SumOf(result.classes, "out") = SumOf(result.classes, "edges")
        /\ SumOf(result.classes, "out") = Cardinality(EdgePairs(result.classes))

\* A result with a class that depends on itself and three edges or more.
C1_Witness ==
    /\ Returned
    /\ SumOf(result.classes, "out") >= 3
    /\ \E x \in 1..Len(result.classes) :
          result.classes[x].className \in Range(result.classes[x].dependsOn)

\* C2: after aggregation dependedByClasses(X) is exactly the set of the
\* names of the classes C with X in C.dependsOn, each of them once.
C2_IncomingEdges ==
    pc \in {"sort", "summary", "done"} =>
        \A x \in 1..Len(classMap) :
            /\ NoDuplicates(classMap[x].dependedByClasses)
            /\ Range(classMap[x].dependedByClasses) =
                  { classMap[y].className : y \in
                      { z \in 1..Len(classMap) :
                          classMap[x].className \in Range(classMap[z].dependsOn) } }

\* After aggregation a class has two dependents, one of them another class.
C2_Witness ==
    /\ pc = "sort"
    /\ \E x \in 1..Len(classMap) :
          /\ Len(classMap[x].dependedByClasses) >= 2
          /\ \E d \in Range(classMap[x].dependedByClasses) : d # classMap[x].className

\* C3: in every state of analyzeProject every class record has
\* couplingOut = |dependsOn| and couplingIn = |dependedByClasses|.
C3_CouplingIsCardinality ==
    \A x \in 1..Len(classMap) :
        /\ classMap[x].couplingOut = Len(classMap[x].dependsOn)
        /\ classMap[x].couplingOut = Cardinality(Range(classMap[x].dependsOn))
        /\ classMap[x].couplingIn = Len(classMap[x].dependedByClasses)
        /\ classMap[x].couplingIn = Cardinality(Range(classMap[x].dependedByClasses))

\* In the middle of pass 3, after a file failed in pass 2: one class has its
\* incoming edges, another class still has dependencies to be aggregated.
C3_Witness ==
    /\ pc = "pass3"
    /\ Len(warnings) >= 2
    /\ i <= Len(classMap)
    /\ j <= Len(classMap[i].dependsOn)
    /\ \E x \in 1..Len(classMap) : classMap[x].couplingIn >= 1

\* The fully-qualified names declared by the files that parse, in the order
\* of discovery: file order, then declaration order, a name counted where it
\* is first declared.
DiscoveryOrder(files) ==
    AddAll(<<>>,
           Flatten([x \in 1..Len(files) |->
                      IF files[x].parses
                      THEN [y \in 1..Len(files[x].classes) |->
                              FullClassName(files[x].packageName, files[x].classes[y].name)]
                      ELSE <<>>]))

PositionIn(seq, e) == CHOOSE x \in 1..Len(seq) : seq[x] = e

\* C4: the classes of the result are in descending order of total coupling,
\* and classes of equal total coupling are in the order of their discovery.
C4_SortedTiesByDiscovery ==
    Returned =>
        \A x, y \in 1..Len(result.classes) :
            x < y =>
                /\ getTotalCoupling(result.classes[x]) >= getTotalCoupling(result.classes[y])
                /\ getTotalCoupling(result.classes[x]) = getTotalCoupling(result.classes[y])
                      => PositionIn(DiscoveryOrder(javaFiles), result.classes[x].className)
                           < PositionIn(DiscoveryOrder(javaFiles), result.classes[y].className)

\* The least integer that is at least a fifth of n: ceil(n * 0.2).
CeilFifth(n) == CHOOSE k \in 0..n : 5 * k >= n /\ (k = 0 \/ 5 * (k - 1) < n)

\* C5: highlyCoupledClasses is the number of classes in the first
\* ceil(totalClasses * 0.2) positions of the sorted sequence whose total
\* coupling is positive; so it lies between 0 and that ceiling, and a class
\* just after the cutoff is not counted whatever its coupling.
C5_HighlyCoupledPositional ==
    Returned =>
        LET cutoff == CeilFifth(result.totalClasses)
        IN  /\ result.highlyCoupledClasses =
                  Cardinality({ x \in 1..Len(result.classes) :
                                  x <= cutoff /\ getTotalCoupling(result.classes[x]) > 0 })
            /\ 0 <= result.highlyCoupledClasses
            /\ result.highlyCoupledClasses <= cutoff

\* A result of more than ten classes whose cutoff is three, all three counted,
\* and the class just after the cutoff has the coupling of the class before it.
C5_Witness ==
    /\ Returned
    /\ Len(result.classes) > 10
    /\ result.highlyCoupledClasses = 3
    /\ getTotalCoupling(result.classes[4]) = getTotalCoupling(result.classes[3])

\* C6: totalClasses is the number of class records, averageCoupling times
\* totalClasses is the sum of the total couplings, maxCoupling is the largest
\* total coupling, and both are 0 when there are no classes.
C6_SummaryMetrics ==
    Returned =>
        /\ result.totalClasses = Len(result.classes)
        /\ result.totalClasses = Len(classMap)
        /\ result.averageCoupling.num * result.totalClasses
              = (SumOf(result.classes, "out") + SumOf(result.classes, "in"))
                  * result.averageCoupling.den
        /\ \A x \in 1..Len(result.classes) :
              getTotalCoupling(result.classes[x]) <= result.maxCoupling
        /\ result.classes # <<>> =>
              \E x \in 1..Len(result.classes) :
                  getTotalCoupling(result.classes[x]) = result.maxCoupling
        /\ result.classes = <<>> =>
              /\ result.averageCoupling.num = 0
              /\ result.maxCoupling = 0

\* A result whose sum of couplings is not a multiple of the number of
\* classes, and whose largest coupling is not that of every class.
C6_Witness ==
    /\ Returned
    /\ Len(result.classes) >= 2
    /\ (SumOf(result.classes, "out") + SumOf(result.classes, "in")) % Len(result.classes) # 0
    /\ \E x \in 1..Len(result.classes) :
          getTotalCoupling(result.classes[x]) < result.maxCoupling

\* C7: for a project without eligible source files the statistics are all 0
\* and the engine signals the empty input to its caller instead of returning
\* a normal result.
C7_EmptyProjectSignalled ==
    (pc = "done" /\ project.exists /\ project.files = <<>>) =>
        /\ result.totalClasses = 0
        /\ result.averageCoupling.num = 0
        /\ result.maxCoupling = 0
        /\ result.highlyCoupledClasses = 0
        /\ outcome # "returned"

\* The registry of all the classes the files that parse declare, as far as
\* containsKey reads it.
DeclaredRegistry(files) ==
    LET order == DiscoveryOrder(files)
    IN  [x \in 1..Len(order) |-> [className |-> order[x]]]

\* Class y of file x is the last declaration of its fully-qualified name.
IsLastDeclaration(files, x, y) ==
    \A x2 \in 1..Len(files) : \A y2 \in 1..Len(files[x2].classes) :
        (/\ files[x2].parses
         /\ FullClassName(files[x2].packageName, files[x2].classes[y2].name)
               = FullClassName(files[x].packageName, files[x].classes[y].name))
        => (x2 < x \/ (x2 = x /\ y2 <= y))

\* C8: dependency resolution starts only when the registry holds every class
\* of every file that parses, so every class gets the dependencies its
\* references have in the complete registry, wherever the files of the
\* referenced classes stand in the file list.
C8_ResolutionAfterCompleteRegistry ==
    /\ pc = "pass2" => keySet(classMap) = Range(DiscoveryOrder(javaFiles))
    /\ (pc = "pass2" /\ i <= Len(javaFiles) /\ j > 1) =>
          LET cu  == javaFiles[i]
              cls == cu.classes[j - 1]
          IN  get(classMap, FullClassName(cu.packageName, cls.name)).dependsOn
                 = HashSetOrder(CollectDependencies(cu, cls, DeclaredRegistry(javaFiles)))
    /\ Returned =>
          LET complete == DeclaredRegistry(javaFiles)
          IN  \A x \in 1..Len(javaFiles) : \A y \in 1..Len(javaFiles[x].classes) :
                  (javaFiles[x].parses /\ IsLastDeclaration(javaFiles, x, y)) =>
                      LET cu  == javaFiles[x]
                          cls == cu.classes[y]
                      IN  Range(get(result.classes,
                                    FullClassName(cu.packageName, cls.name)).dependsOn)
                             = Range(CollectDependencies(cu, cls, complete))

\* A result with a cycle of two classes of two files: the class discovered
\* first depends on the class discovered second, and the second on the first.
C8_Witness ==
    /\ Returned
    /\ Len(javaFiles) = 2
    /\ \E x, y \in 1..Len(result.classes) :
          /\ PositionIn(DiscoveryOrder(javaFiles), result.classes[x].className)
                < PositionIn(DiscoveryOrder(javaFiles), result.classes[y].className)
          /\ Len(javaFiles[1].classes) = 1
          /\ result.classes[x].className
                = FullClassName(javaFiles[1].packageName, javaFiles[1].classes[1].name)
          /\ result.classes[y].className \in Range(result.classes[x].dependsOn)
          /\ result.classes[x].className \in Range(result.classes[y].dependsOn)

\* C9: the dependsOn of every record is assigned exactly once, in pass 2; no
\* incoming edge is recorded before pass 2 has ended; and after pass 3 no
\* record changes.
C9_SingleWritePerPhase ==
    /\ \A x, y \in 1..Len(assigned) : assigned[x] = assigned[y] => x = y
    /\ pc \in {"pass3", "sort", "summary", "done"} => keySet(classMap) = Range(assigned)
    /\ pc \in {"pass1", "pass2"} =>
          \A x \in 1..Len(classMap) :
              classMap[x].couplingIn = 0 /\ classMap[x].dependedByClasses = <<>>
    /\ pc \in {"summary", "done"} => Range(classList) = Range(classMap)
    /\ Returned => result.classes = classList

\* C10: every name in a dependsOn is a key of the registry, and resolveType
\* gives a key of the registry or null for every type reference it is called
\* with.
C10_DependenciesAreRegistryKeys ==
    /\ \A x \in 1..Len(classMap) :
          \A d \in Range(classMap[x].dependsOn) : containsKey(classMap, d)
    /\ (pc = "pass2" /\ i <= Len(javaFiles) /\ j <= Len(javaFiles[i].classes)) =>
          \A r \in Range(TypeReferences(javaFiles[i].classes[j])) :
              resolveType(r, javaFiles[i].packageName, javaFiles[i].imports, classMap)
                 \in keySet(classMap) \cup {Null}

\* A result in which a class that implements the external type Ext has
\* dependencies.
C10_Witness ==
    /\ Returned
    /\ \E x \in 1..Len(javaFiles) : \E y \in 1..Len(javaFiles[x].classes) :
          /\ javaFiles[x].classes[y].implementedTypes = <<"Ext">>
          /\ resolveType("Ext", javaFiles[x].packageName, javaFiles[x].imports, classMap) = Null
          /\ IsLastDeclaration(javaFiles, x, y)
          /\ get(classMap, FullClassName(javaFiles[x].packageName,
                                         javaFiles[x].classes[y].name)).dependsOn # <<>>

(***************************************************************************)
(* resolveType on its own: one call on arguments drawn from small sets     *)
(***************************************************************************)
\* Type names as they appear in declarations: simple, qualified, generic,
\* array and padded names, names of the exclusion list, names of java. and
\* javax. packages, and a name no class of the project carries.
ResolverTypeNames ==
    { "A", "B", "p.A", "List<A>", "A[]", " A ", "String", "int",
      "javax.A", "java.util.List", "Ext" }

ResolverPackages == { "", "p", "q", "javax" }

ResolverImports == { "p.A", "q.A", "x.A" }

\* Class names a project can declare.
ResolverKeys == { "A", "p.A", "q.A", "p.B", "String", "javax.A" }

\* The registry holding one record per name of S.
RECURSIVE RegistryOf(_)
RegistryOf(S) ==
    IF S = {} THEN <<>>
    ELSE LET k == CHOOSE x \in S : TRUE
         IN  put(RegistryOf(S \ {k}), k, [ className |-> k ])

InitResolve ==
    /\ rClassMap \in { RegistryOf(S) : S \in SUBSET ResolverKeys }
    /\ rImports \in SeqsUpTo(ResolverImports, MaxImports)
    /\ rPackage \in ResolverPackages
    /\ rTypeName \in ResolverTypeNames
    /\ rReturn = "<pending>"
    /\ project = [ exists |-> FALSE, files |-> <<>> ]
    /\ pc = "done"
    /\ javaFiles = <<>>
    /\ i = 1
    /\ j = 1
    /\ classMap = <<>>
    /\ classList = <<>>
    /\ result = NewAnalysisResult
    /\ outcome = "returned"
    /\ warnings = <<>>
    /\ assigned = <<>>
    /\ MetricsIdle
    /\ firstRun = NoEarlierRun
    /\ LaterIdle

ResolveCall ==
    /\ rReturn = "<pending>"
    /\ rReturn' = resolveType(rTypeName, rPackage, rImports, rClassMap)
    /\ UNCHANGED << rTypeName, rPackage, rImports, rClassMap, metricVars, firstRun >>
    /\ UNCHANGED laterVars
    /\ UNCHANGED << project, pc, javaFiles, i, j, classMap, classList, result,
                    outcome, warnings, assigned >>

NextResolve == ResolveCall

SpecResolve == InitResolve /\ [][NextResolve]_vars

ResolveReturned == rReturn \notin { "<idle>", "<pending>" }

\* The names the exclusion step of the resolver rejects.
Excluded(typeName) ==
    \/ typeName \in { "int", "long", "double", "float", "boolean", "char",
                      "byte", "short", "void", "String", "Object" }
    \/ StartsWith(typeName, "java.")
    \/ StartsWith(typeName, "javax.")

QualifiedIn(currentPackage, typeName) ==
    IF currentPackage = "" THEN typeName ELSE currentPackage \o "." \o typeName

AllReferences(cls) ==
    TypeReferences(cls)
    \o Flatten([x \in 1..Len(cls.methods) |-> cls.methods[x].created])

\* The registry classes the references of cls resolve to.
ResolvedReferences(cu, cls, m) ==
    { t \in { resolveType(r, cu.packageName, cu.imports, m) :
                r \in Range(AllReferences(cls)) } : IsInternal(m, t) }

\* The record the result holds for the class declared at javaFiles[x],
\* position y.
ResultOf(x, y) ==
    get(result.classes,
        FullClassName(javaFiles[x].packageName, javaFiles[x].classes[y].name))

\* The declarations whose dependencies the result reports.
Reported ==
    { d \in (1..Len(javaFiles)) \X (1..2) :
        /\ javaFiles[d[1]].parses
        /\ d[2] <= Len(javaFiles[d[1]].classes)
        /\ IsLastDeclaration(javaFiles, d[1], d[2]) }

\* C12 as stated: dependsOn holds only classes the class references by a
\* supertype, an interface, a field type, a method return or parameter type
\* or an object-creation expression; an import alone makes no dependency.
C12_OnlyReferencedClasses ==
    Returned =>
        LET complete == DeclaredRegistry(javaFiles)
        IN  \A d \in Reported :
                Range(ResultOf(d[1], d[2]).dependsOn)
                   \subseteq ResolvedReferences(javaFiles[d[1]],
                                                javaFiles[d[1]].classes[d[2]], complete)

\* C12: dependsOn holds only registry classes that the class references by a
\* supertype, an interface, a field type, a method return or parameter type
\* or an object-creation expression, or that the file declaring the class
\* imports.
C12_OnlyReferencedOrImported ==
    Returned =>
        LET complete == DeclaredRegistry(javaFiles)
        IN  \A d \in Reported :
                LET cu == javaFiles[d[1]]
                IN  Range(ResultOf(d[1], d[2]).dependsOn)
                       \subseteq (ResolvedReferences(cu, cu.classes[d[2]], complete)
                                    \cup (Range(cu.imports) \cap keySet(complete)))

\* A class without any reference, in a file that imports the internal class
\* p.B, depends on p.B.
C12_Witness ==
    /\ Returned
    /\ \E d \in Reported :
          LET cu == javaFiles[d[1]]
          IN  /\ AllReferences(cu.classes[d[2]]) = <<>>
              /\ cu.imports = <<"p.B">>
              /\ ResultOf(d[1], d[2]).dependsOn = <<"p.B">>

\* C13: every reference of a class that resolves to a registry key is in its
\* dependsOn, whichever of the five kinds the reference is; and a project of
\* p.A with a field of type p.B and p.B without fields gives p.A one
\* outgoing and p.B one incoming edge.
C13_EveryResolvedReferenceCounts ==
    Returned =>
        LET complete == DeclaredRegistry(javaFiles)
        IN  /\ \A d \in Reported :
                  ResolvedReferences(javaFiles[d[1]],
                                     javaFiles[d[1]].classes[d[2]], complete)
                     \subseteq Range(ResultOf(d[1], d[2]).dependsOn)
            /\ (/\ Len(javaFiles) = 2
                /\ \A x \in 1..2 : /\ javaFiles[x].parses
                                    /\ javaFiles[x].packageName = "p"
                                    /\ javaFiles[x].imports = <<>>
                /\ javaFiles[1].classes = << ClassDecl("A", FieldB) >>
                /\ javaFiles[2].classes = << ClassDecl("B", NoMembers) >>)
               => LET a == get(result.classes, "p.A")
                      b == get(result.classes, "p.B")
                  IN  /\ a.dependsOn = <<"p.B">> /\ a.couplingOut = 1 /\ a.couplingIn = 0
                      /\ b.dependsOn = <<>> /\ b.couplingOut = 0 /\ b.couplingIn = 1

(***************************************************************************)
(* The metric extractor: CodeParser.parseClassData and MetricCollector     *)
(***************************************************************************)
PrimitiveTypes ==
    { "int", "long", "double", "float", "boolean", "char", "byte", "short" }

\* Type.isClassOrInterfaceType of a declared type: not a primitive type, not
\* void and not an array type.
IsClassOrInterfaceType(type) ==
    /\ type \notin PrimitiveTypes \cup { "void" }
    /\ IndexOfFrom(type, "[", 1) = 0

\* Type.getElementType: the type without its array brackets.
ElementType(type) == RemoveBrackets(type)

\* ClassOrInterfaceType.getNameAsString: the identifier of the type, without
\* its scope and without its type arguments.
NameAsString(type) ==
    LET lt   == IndexOfFrom(type, "<", 1)
        bare == IF lt > 0 THEN SubSeq(type, 1, lt - 1) ELSE type
        dot  == LastIndexOfFrom(bare, ".", Len(bare))
    IN  SubSeq(bare, dot + 1, Len(bare))

\* The names a declared type adds to `dependencies`.
TypeDependency(type) ==
    IF IsClassOrInterfaceType(type) THEN { NameAsString(type) } ELSE {}

\* What the forEach over the methods of class c adds to `dependencies`.
MethodDependencies(m) ==
    UNION { TypeDependency(m.parameters[x]) : x \in 1..Len(m.parameters) }
    \cup TypeDependency(m.type)
    \cup { NameAsString(m.created[x]) : x \in 1..Len(m.created) }

\* What one class of the compilation unit adds to `dependencies`.
ClassDependencies(c) ==
    { NameAsString(c.extendedTypes[x]) : x \in 1..Len(c.extendedTypes) }
    \cup { NameAsString(c.implementedTypes[x]) : x \in 1..Len(c.implementedTypes) }
    \cup UNION { TypeDependency(ElementType(c.fields[x])) : x \in 1..Len(c.fields) }
    \cup UNION { MethodDependencies(c.methods[x]) : x \in 1..Len(c.methods) }

\* The method declarations of the compilation unit in the order
\* cu.findAll(ClassOrInterfaceDeclaration) and c.findAll(MethodDeclaration)
\* visit them.  A method of a nested class is visited once more with the
\* enclosing class, to the same effect on the sets and on the map.
MethodsOf(cu) == Flatten([x \in 1..Len(cu.classes) |-> cu.classes[x].methods])

\* methodFieldAccess.put(m.getNameAsString(), accessedFields) for every
\* method: a later method replaces the entry of an earlier one of the same
\* name.
MethodFieldAccess(cu) ==
    LET ms == MethodsOf(cu)
    IN  [ n \in { ms[x].name : x \in 1..Len(ms) } |->
            LET last == CHOOSE x \in 1..Len(ms) :
                          /\ ms[x].name = n
                          /\ \A y \in 1..Len(ms) : ms[y].name = n => y <= x
            IN  ms[last].fieldAccess ]

parseClassData(cu) ==
    [ dependencies      |-> UNION { ClassDependencies(cu.classes[x]) :
                                      x \in 1..Len(cu.classes) },
      methodFieldAccess |-> MethodFieldAccess(cu),
      methodCalls       |-> UNION { MethodsOf(cu)[x].calls :
                                      x \in 1..Len(MethodsOf(cu)) } ]

calculateCBO(dependencies) == Cardinality(dependencies)

\* Variant: every extended type adds a level.
calculateDITCountingTypes(cu) ==
    IF cu.classes = <<>> THEN 0 ELSE Len(cu.classes[1].extendedTypes)

calculateDIT(cu) ==
    IF cu.classes # <<>> /\ cu.classes[1].extendedTypes # <<>> THEN 1 ELSE 0

calculateLCOM(methodFieldAccess) ==
    IF Cardinality(DOMAIN methodFieldAccess) <= 1 THEN 0
    ELSE LET pairs == { pr \in SUBSET (DOMAIN methodFieldAccess) : Cardinality(pr) = 2 }
             p     == Cardinality({ pr \in pairs :
                         \E a, b \in pr :
                            /\ a # b
                            /\ methodFieldAccess[a] \cap methodFieldAccess[b] = {} })
             q     == Cardinality(pairs) - p
         IN  IF p > q THEN p - q ELSE 0

calculateRFC(cu, methodCalls) ==
    (IF cu.classes = <<>> THEN 0 ELSE Len(cu.classes[1].methods))
    + Cardinality(methodCalls)

(***************************************************************************)
(* The projects the metric extractor is run on                             *)
(***************************************************************************)
Method(name, parameters, fieldAccess, calls) ==
    [ name |-> name, type |-> "void", parameters |-> parameters,
      fieldAccess |-> fieldAccess, calls |-> calls, created |-> <<>> ]

\* A supertype that no file of the project declares.
ExtendsExt == [NoMembers EXCEPT !.extendedTypes = <<"Ext">>]

\* An interface that extends B and Ext.
ExtendsTwo == [NoMembers EXCEPT !.extendedTypes = <<"B", "Ext">>]

\* Two overloads of m that touch different fields.
Overloads ==
    [NoMembers EXCEPT !.methods = << Method("m", <<>>, {"x"}, {}),
                                     Method("m", <<"int">>, {"y"}, {}) >>]

\* Two methods on the same field, the first calling the second.
Cohesive ==
    [NoMembers EXCEPT !.methods = << Method("f", <<>>, {"x"}, {"g"}),
                                     Method("g", <<>>, {"x"}, {}) >>]

\* Three methods without a common field; h is called from two of them.
Scattered ==
    [NoMembers EXCEPT !.methods = << Method("f", <<>>, {"x"}, {"h", "println"}),
                                     Method("g", <<>>, {"y"}, {"h"}),
                                     Method("h", <<>>, {}, {}) >>]

\* A field of type B and a method that calls foo.
Callers ==
    [NoMembers EXCEPT !.fields = <<"B">>,
                      !.methods = << Method("b", <<>>, {}, {"foo"}) >>]

\* The class declarations of one file: no class at all, one class, or two.
MetricClassLists ==
    { <<>> }
    \cup { << ClassDecl("A", mb) >> :
             mb \in { NoMembers, FieldB, ImplementsExt, CreatesB, ExtendsExt,
                      ExtendsTwo, Overloads, Cohesive, Scattered } }
    \cup { << ClassDecl("B", mb) >> : mb \in { NoMembers, ExtendsA } }
    \cup { << ClassDecl("A", NoMembers), ClassDecl("B", Callers) >>,
           << ClassDecl("A", Cohesive), ClassDecl("B", Scattered) >> }

MetricSourceFiles ==
    { Malformed }
    \cup { [ parses |-> TRUE, packageName |-> "", imports |-> <<>>, classes |-> cl ] :
             cl \in MetricClassLists }

\* A path given to the metric extractor: no such entry, a regular file, or
\* a directory with its source files.
MetricProjects ==
    { [ exists |-> FALSE, directory |-> FALSE, files |-> <<>> ],
      [ exists |-> TRUE, directory |-> FALSE, files |-> <<>> ] }
    \cup { [ exists |-> TRUE, directory |-> TRUE, files |-> fs ] :
             fs \in SeqsUpTo(MetricSourceFiles, MaxFiles) }

(***************************************************************************)
(* MetricExtractor.main                                                    *)
(***************************************************************************)
InitMetrics ==
    /\ mProject \in MetricProjects
    /\ mpc = "start"
    /\ mJavaFiles = <<>>
    /\ mIndex = 1
    /\ metrics = <<>>
    /\ mErr = <<>>
    /\ project = [ exists |-> FALSE, files |-> <<>> ]
    /\ pc = "done"
    /\ javaFiles = <<>>
    /\ i = 1
    /\ j = 1
    /\ classMap = <<>>
    /\ classList = <<>>
    /\ result = NewAnalysisResult
    /\ outcome = "returned"
    /\ warnings = <<>>
    /\ assigned = <<>>
    /\ ResolverIdle
    /\ firstRun = NoEarlierRun
    /\ LaterIdle

engineVars == << project, pc, javaFiles, i, j, classMap, classList, result,
                 outcome, warnings, assigned >>

\* The checks ahead of the loop: the directory, then the list of files.
MetricsStart ==
    /\ mpc = "start"
    /\ IF ~mProject.exists \/ ~mProject.directory
       THEN /\ mErr' = Append(mErr, "not a valid directory")
            /\ mpc' = "done"
            /\ UNCHANGED mJavaFiles
       ELSE IF mProject.files = <<>>
       THEN /\ mErr' = Append(mErr, "no .java file found")
            /\ mpc' = "done"
            /\ mJavaFiles' = mProject.files
       ELSE /\ mpc' = "loop"
            /\ mJavaFiles' = mProject.files
            /\ UNCHANGED mErr
    /\ UNCHANGED << mProject, mIndex, metrics >>
    /\ UNCHANGED << engineVars, resolverVars, firstRun >>
    /\ UNCHANGED laterVars

\* javaParser.parse(file).getResult().get() throws.
MetricsParseFailure ==
    /\ mpc = "loop"
    /\ mIndex <= Len(mJavaFiles)
    /\ ~mJavaFiles[mIndex].parses
    /\ mErr' = Append(mErr, "error analysing the file")
    /\ mIndex' = mIndex + 1
    /\ UNCHANGED << mProject, mpc, mJavaFiles, metrics >>
    /\ UNCHANGED << engineVars, resolverVars, firstRun >>
    /\ UNCHANGED laterVars

\* cu.findFirst(ClassOrInterfaceDeclaration.class) is empty.
MetricsNoClass ==
    /\ mpc = "loop"
    /\ mIndex <= Len(mJavaFiles)
    /\ mJavaFiles[mIndex].parses
    /\ mJavaFiles[mIndex].classes = <<>>
    /\ mIndex' = mIndex + 1
    /\ UNCHANGED << mProject, mpc, mJavaFiles, metrics, mErr >>
    /\ UNCHANGED << engineVars, resolverVars, firstRun >>
    /\ UNCHANGED laterVars

\* The body of ifPresent: the metrics of the first class of the file.
MetricsClass ==
    /\ mpc = "loop"
    /\ mIndex <= Len(mJavaFiles)
    /\ mJavaFiles[mIndex].parses
    /\ mJavaFiles[mIndex].classes # <<>>
    /\ LET cu        == mJavaFiles[mIndex]
           className == cu.classes[1].name
           parseData == parseClassData(cu)
       IN  metrics' = put(metrics, className,
                          [ className    |-> className,
                            CBO          |-> calculateCBO(parseData.dependencies),
                            DIT          |-> calculateDIT(cu),
                            LCOM         |-> calculateLCOM(parseData.methodFieldAccess),
                            RFC          |-> calculateRFC(cu, parseData.methodCalls),
                            Dependencies |-> parseData.dependencies ])
    /\ mIndex' = mIndex + 1
    /\ UNCHANGED << mProject, mpc, mJavaFiles, mErr >>
    /\ UNCHANGED << engineVars, resolverVars, firstRun >>
    /\ UNCHANGED laterVars

\* The loop is over: the metrics are printed and exported.
MetricsEnd ==
    /\ mpc = "loop"
    /\ mIndex > Len(mJavaFiles)
    /\ mpc' = "done"
    /\ UNCHANGED << mProject, mJavaFiles, mIndex, metrics, mErr >>
    /\ UNCHANGED << engineVars, resolverVars, firstRun >>
    /\ UNCHANGED laterVars

NextMetrics ==
    \/ MetricsStart
    \/ MetricsParseFailure
    \/ MetricsNoClass
    \/ MetricsClass
    \/ MetricsEnd

SpecMetrics == InitMetrics /\ [][NextMetrics]_vars

\* The metrics of the first class of a file have just been stored.
MetricsComputed ==
    /\ mpc = "loop"
    /\ mIndex > 1
    /\ mJavaFiles[mIndex - 1].parses
    /\ mJavaFiles[mIndex - 1].classes # <<>>

AnalysedUnit == mJavaFiles[mIndex - 1]

AnalysedClass == AnalysedUnit.classes[1]

ComputedMetrics == get(metrics, AnalysedClass.name)

\* The out-degree the dependency engine gives the analysed class in the same
\* project.
EngineCouplingOut ==
    AssignDependencies(NewClassInfo(AnalysedUnit, AnalysedClass),
                       CollectDependencies(AnalysedUnit, AnalysedClass,
                                           DeclaredRegistry(mJavaFiles))).couplingOut

\* C14: the CBO the calculator gives a class equals the out-degree of the
\* class in the dependency graph, and no external type is counted.
C14_CBOEqualsCouplingOut ==
    MetricsComputed =>
        /\ ComputedMetrics.CBO = EngineCouplingOut
        /\ ComputedMetrics.Dependencies
              \subseteq keySet(DeclaredRegistry(mJavaFiles))

\* p - q over the unordered pairs of the methods of cls, p the pairs without
\* and q the pairs with a common accessed field; 0 when that is negative.
PairwiseLCOM(cls) ==
    LET pairs == { pr \in (1..Len(cls.methods)) \X (1..Len(cls.methods)) : pr[1] < pr[2] }
        p     == Cardinality({ pr \in pairs :
                     cls.methods[pr[1]].fieldAccess
                        \cap cls.methods[pr[2]].fieldAccess = {} })
        q     == Cardinality(pairs) - p
    IN  IF p - q > 0 THEN p - q ELSE 0

\* C15: the LCOM of a class is max(p - q, 0) over the unordered pairs of the
\* methods of the class; it is never negative, and it is 0 when the class has
\* at most one method.
C15_LCOMOverMethodPairs ==
    MetricsComputed =>
        /\ ComputedMetrics.LCOM = PairwiseLCOM(AnalysedClass)
        /\ ComputedMetrics.LCOM >= 0
        /\ Len(AnalysedClass.methods) <= 1 => ComputedMetrics.LCOM = 0

\* C16: the DIT of a class is 0 or 1, and it is 1 exactly when the class has
\* a non-empty supertype list, whether the supertypes are classes of the
\* project or not; a supertype that is no class of the project is not among
\* the dependencies of the class.
C16_DITIsSupertypeFlag ==
    MetricsComputed =>
        /\ ComputedMetrics.DIT \in { 0, 1 }
        /\ ComputedMetrics.DIT = 1 <=> AnalysedClass.extendedTypes # <<>>
        /\ \A x \in 1..Len(AnalysedClass.extendedTypes) :
              LET type == AnalysedClass.extendedTypes[x]
                  complete == DeclaredRegistry(mJavaFiles)
              IN  resolveType(type, AnalysedUnit.packageName,
                              AnalysedUnit.imports, complete) = Null
                  => type \notin Range(CollectDependencies(AnalysedUnit, AnalysedClass,
                                                           complete))

\* A class whose only supertype is external has DIT 1 and no dependency.
C16_Witness ==
    /\ MetricsComputed
    /\ AnalysedClass.extendedTypes = <<"Ext">>
    /\ ComputedMetrics.DIT = 1
    /\ CollectDependencies(AnalysedUnit, AnalysedClass,
                           DeclaredRegistry(mJavaFiles)) = <<>>

\* C17: the RFC of a class is the number of its declared methods plus the
\* number of distinct names called in the bodies of its own methods; a name
\* called several times counts once and calls made in other classes do not
\* count.
C17_RFCOfOwnMethods ==
    MetricsComputed =>
        ComputedMetrics.RFC
           = Len(AnalysedClass.methods)
             + Cardinality(UNION { AnalysedClass.methods[x].calls :
                                     x \in 1..Len(AnalysedClass.methods) })

\* C18: a class without methods, supertypes and references has RFC 0, LCOM 0,
\* DIT 0 and CBO 0, whatever else its source file declares.
C18_EmptyClassAllZero ==
    (/\ MetricsComputed
     /\ AnalysedClass.methods = <<>>
     /\ AllReferences(AnalysedClass) = <<>>)
    => /\ ComputedMetrics.RFC = 0
       /\ ComputedMetrics.LCOM = 0
       /\ ComputedMetrics.DIT = 0
       /\ ComputedMetrics.CBO = 0

(***************************************************************************)
(* Two runs of the engine, one after the other                             *)
(***************************************************************************)
\* A file with a class declaration that StaticJavaParser.parse rejects.
Unparsable ==
    [ parses |-> FALSE, packageName |-> "", imports |-> <<>>,
      classes |-> << ClassDecl("A", FieldB) >> ]

RerunSourceFiles ==
    { Malformed, Unparsable }
    \cup { [ parses |-> TRUE, packageName |-> "", imports |-> <<>>, classes |-> <<c>> ] :
             c \in { ClassDecl("A", NoMembers), ClassDecl("B", NoMembers),
                     ClassDecl("A", FieldB), ClassDecl("B", ExtendsA) } }
    \cup { [ parses |-> TRUE, packageName |-> "", imports |-> <<"p.B">>,
             classes |-> << ClassDecl("A", ImplementsExt) >> ] }
    \cup { [ parses |-> TRUE, packageName |-> "p", imports |-> <<>>, classes |-> cl ] :
             cl \in { << ClassDecl("A", NoMembers) >>, << ClassDecl("B", NoMembers) >>,
                      << ClassDecl("A", FieldB), ClassDecl("B", FieldB) >> } }

RerunProjects ==
    { [ exists |-> FALSE, files |-> <<>> ] }
    \cup { [ exists |-> TRUE, files |-> fs ] :
             fs \in SeqsUpTo(RerunSourceFiles, MaxFiles) }

InitRerun ==
    /\ project \in RerunProjects
    /\ pc = "findJavaFiles"
    /\ javaFiles = <<>>
    /\ i = 1
    /\ j = 1
    /\ classMap = <<>>
    /\ classList = <<>>
    /\ result = NewAnalysisResult
    /\ outcome = "running"
    /\ warnings = <<>>
    /\ assigned = <<>>
    /\ ResolverIdle
    /\ MetricsIdle
    /\ firstRun = NoEarlierRun
    /\ LaterIdle

\* What a run leaves behind for the comparison: how it ended, the result it
\* returned and its warnings.
Finished(input) ==
    [ input |-> input, outcome |-> outcome, result |-> result, warnings |-> warnings ]

\* A call of analyzeProject starts from fresh local variables.
StartRun ==
    /\ pc' = "findJavaFiles"
    /\ javaFiles' = <<>>
    /\ i' = 1
    /\ j' = 1
    /\ classMap' = <<>>
    /\ classList' = <<>>
    /\ result' = NewAnalysisResult
    /\ outcome' = "running"
    /\ warnings' = <<>>
    /\ assigned' = <<>>

\* The engine is run once more on the unchanged project.
RunAgain ==
    /\ pc = "done"
    /\ firstRun = NoEarlierRun
    /\ firstRun' = Finished("same")
    /\ StartRun
    /\ UNCHANGED << project, resolverVars, metricVars >>
    /\ UNCHANGED laterVars

\* The engine is run once more on the project without the files the parser
\* rejected.
RunWithoutFailingFiles ==
    /\ pc = "done"
    /\ firstRun = NoEarlierRun
    /\ project.exists
    /\ \E x \in 1..Len(project.files) : ~project.files[x].parses
    /\ firstRun' = Finished("without failing files")
    /\ project' = [project EXCEPT !.files = SelectSeq(@, LAMBDA f : f.parses)]
    /\ StartRun
    /\ UNCHANGED << resolverVars, metricVars >>
    /\ UNCHANGED laterVars

NextRerun ==
    \/ Next
    \/ RunAgain
    \/ RunWithoutFailingFiles

SpecRerun == InitRerun /\ [][NextRerun]_vars

CountOf(seq, e) == Cardinality({ x \in 1..Len(seq) : seq[x] = e })

\* C20: a file the parser rejects is skipped with a warning and the run goes
\* on to a normal result; no class of the file is in the registry or in the
\* output; and the classes of the other files are analysed as in a run on the
\* project without the rejected files.
C20_FailingFileSkipped ==
    /\ (pc = "done" /\ project.exists) => outcome = "returned"
    /\ Returned =>
          /\ CountOf(warnings, "Could not parse")
                = Cardinality({ x \in 1..Len(javaFiles) : ~javaFiles[x].parses })
          /\ \A x \in 1..Len(javaFiles) : \A y \in 1..Len(javaFiles[x].classes) :
                (/\ ~javaFiles[x].parses
                 /\ \A x2 \in 1..Len(javaFiles) : \A y2 \in 1..Len(javaFiles[x2].classes) :
                       javaFiles[x2].parses =>
                          FullClassName(javaFiles[x2].packageName, javaFiles[x2].classes[y2].name)
                             # FullClassName(javaFiles[x].packageName, javaFiles[x].classes[y].name))
                => /\ ~containsKey(classMap,
                                   FullClassName(javaFiles[x].packageName,
                                                 javaFiles[x].classes[y].name))
                   /\ ~containsKey(result.classes,
                                   FullClassName(javaFiles[x].packageName,
                                                 javaFiles[x].classes[y].name))
    /\ (Returned /\ firstRun # NoEarlierRun /\ firstRun.input = "without failing files") =>
          /\ firstRun.outcome = "returned"
          /\ result = firstRun.result

\* A run with a rejected file and classes in its result, followed by a run
\* without the rejected file that returns the same result.
C20_Witness ==
    /\ Returned
    /\ firstRun # NoEarlierRun
    /\ firstRun.input = "without failing files"
    /\ firstRun.warnings # <<>>
    /\ \E x \in 1..Len(result.classes) : result.classes[x].dependsOn # <<>>
    /\ result = firstRun.result

(***************************************************************************)
(* The selection of the source files                                       *)
(***************************************************************************)
MaxDepth == 2

\* String.contains
RECURSIVE Contains(_, _)
Contains(s, sub) ==
    IF Len(s) < Len(sub) THEN FALSE
    ELSE IF StartsWith(s, sub) THEN TRUE
    ELSE Contains(SubSeq(s, 2, Len(s)), sub)

\* The names of a path joined by the separator.
RECURSIVE Join(_)
Join(names) ==
    IF names = <<>> THEN ""
    ELSE IF Len(names) = 1 THEN names[1]
    ELSE names[1] \o "/" \o Join(Tail(names))

\* Path.toString: an absolute path starts with the separator, a relative
\* path (a project directory given relative to the working directory) with
\* its first name.
PathString(path) ==
    (IF path.absolute THEN "/" ELSE "") \o Join(Append(path.directories, path.name))

\* DependencyExtractor.findJavaFiles: the filters over Files.walk.
EngineSelects(path) ==
    /\ path.kind = "regular"
    /\ EndsWith(PathString(path), ".java")
    /\ ~Contains(PathString(path), "/test/")
    /\ ~Contains(PathString(path), "/target/")

\* MetricExtractor.findJavaFiles: a directory is descended into, any other
\* entry is kept when its name ends with ".java".
MetricSelects(path) ==
    /\ path.kind # "directory"
    /\ EndsWith(path.name, ".java")

DirectoryNames == { "src", "test", "target", "tests" }

FileNames == { "A.java", "A.txt", "test", "java" }

\* A directory entry: the directories from the root (or from the working
\* directory) down to it, its name, and whether it is a regular file, a
\* directory or something else (a device, a dangling link).
Paths ==
    [ absolute : BOOLEAN,
      directories : SeqsUpTo(DirectoryNames, MaxDepth),
      name : FileNames,
      kind : { "regular", "directory", "other" } ]

InitSelect ==
    /\ selPath \in Paths
    /\ selState = "pending"
    /\ selEngine = FALSE
    /\ selMetric = FALSE
    /\ project = [ exists |-> FALSE, files |-> <<>> ]
    /\ pc = "done"
    /\ javaFiles = <<>>
    /\ i = 1
    /\ j = 1
    /\ classMap = <<>>
    /\ classList = <<>>
    /\ result = NewAnalysisResult
    /\ outcome = "returned"
    /\ warnings = <<>>
    /\ assigned = <<>>
    /\ ResolverIdle
    /\ MetricsIdle
    /\ firstRun = NoEarlierRun
    /\ CliIdle
    /\ AppIdle

SelectFile ==
    /\ selState = "pending"
    /\ selEngine' = EngineSelects(selPath)
    /\ selMetric' = MetricSelects(selPath)
    /\ selState' = "decided"
    /\ UNCHANGED << selPath, engineVars, resolverVars, metricVars, firstRun >>
    /\ UNCHANGED << cliVars, appVars >>

NextSelect == SelectFile

SpecSelect == InitSelect /\ [][NextSelect]_vars

\* A regular file with the source extension, none of whose directories is a
\* test or a build-output directory.
Eligible(path) ==
    /\ path.kind = "regular"
    /\ EndsWith(path.name, ".java")
    /\ \A x \in 1..Len(path.directories) : path.directories[x] \notin { "test", "target" }

\* C21: the file selection keeps exactly the regular files whose path ends
\* in .java and none of whose directory segments is test or target.
C21_SelectionBySegments ==
    selState = "decided" =>
        /\ selEngine <=> Eligible(selPath)
        /\ selMetric <=> Eligible(selPath)

(***************************************************************************)
(* The command line: DependencyExtractor.main and MetricExtractor.main     *)
(***************************************************************************)
CliSourceFiles ==
    { Malformed,
      [ parses |-> TRUE, packageName |-> "", imports |-> <<>>, classes |-> <<>> ],
      [ parses |-> TRUE, packageName |-> "", imports |-> <<>>,
        classes |-> << ClassDecl("A", FieldB) >> ],
      [ parses |-> TRUE, packageName |-> "", imports |-> <<>>,
        classes |-> << ClassDecl("B", ExtendsA) >> ],
      [ parses |-> TRUE, packageName |-> "p", imports |-> <<>>,
        classes |-> << ClassDecl("A", NoMembers), ClassDecl("B", Callers) >> ] }

\* What lies at a path given on the command line: nothing, a regular file
\* (a source file or not), or a directory with its source files.
CliPaths ==
    { [ exists |-> FALSE, directory |-> FALSE, files |-> <<>> ],
      [ exists |-> TRUE, directory |-> FALSE, files |-> <<>> ] }
    \cup { [ exists |-> TRUE, directory |-> FALSE, files |-> <<f>> ] : f \in CliSourceFiles }
    \cup { [ exists |-> TRUE, directory |-> TRUE, files |-> fs ] :
             fs \in SeqsUpTo(CliSourceFiles, MaxFiles) }

InitCli ==
    /\ cliProgram \in { "DependencyExtractor", "MetricExtractor" }
    /\ cliArgs \in { <<>> } \cup { <<path>> : path \in CliPaths }
    /\ cliState = "main"
    /\ cliStdout = <<>>
    /\ cliStderr = <<>>
    /\ cliExit = 0
    /\ project = [ exists |-> FALSE, files |-> <<>> ]
    /\ pc = "main"
    /\ javaFiles = <<>>
    /\ i = 1
    /\ j = 1
    /\ classMap = <<>>
    /\ classList = <<>>
    /\ result = NewAnalysisResult
    /\ outcome = "running"
    /\ warnings = <<>>
    /\ assigned = <<>>
    /\ mProject = [ exists |-> FALSE, directory |-> FALSE, files |-> <<>> ]
    /\ mpc = "main"
    /\ mJavaFiles = <<>>
    /\ mIndex = 1
    /\ metrics = <<>>
    /\ mErr = <<>>
    /\ ResolverIdle
    /\ firstRun = NoEarlierRun
    /\ SelectIdle
    /\ AppIdle

\* DependencyExtractor.main without arguments: usage on System.err and
\* System.exit(1).
DependencyMainUsage ==
    /\ cliState = "main"
    /\ cliProgram = "DependencyExtractor"
    /\ Len(cliArgs) = 0
    /\ cliStderr' = Append(cliStderr, "Usage")
    /\ cliExit' = 1
    /\ cliState' = "exited"
    /\ UNCHANGED << cliProgram, cliArgs, cliStdout >>
    /\ UNCHANGED << engineVars, resolverVars, metricVars, firstRun, selectVars, appVars >>

\* analyzeProject(new File(args[0])) is called.
DependencyMainAnalyze ==
    /\ cliState = "main"
    /\ cliProgram = "DependencyExtractor"
    /\ Len(cliArgs) > 0
    /\ project' = cliArgs[1]
    /\ pc' = "findJavaFiles"
    /\ cliState' = "running"
    /\ UNCHANGED << cliProgram, cliArgs, cliStdout, cliStderr, cliExit >>
    /\ UNCHANGED << javaFiles, i, j, classMap, classList, result, outcome,
                    warnings, assigned >>
    /\ UNCHANGED << resolverVars, metricVars, firstRun, selectVars, appVars >>

\* System.out.println(gson.toJson(result)) and the normal end of main.
DependencyMainPrint ==
    /\ cliState = "running"
    /\ cliProgram = "DependencyExtractor"
    /\ pc = "done"
    /\ outcome = "returned"
    /\ cliStdout' = Append(cliStdout, result)
    /\ cliExit' = 0
    /\ cliState' = "exited"
    /\ UNCHANGED << cliProgram, cliArgs, cliStderr >>
    /\ UNCHANGED << engineVars, resolverVars, metricVars, firstRun, selectVars, appVars >>

\* The catch block of main: the message on System.err and System.exit(1).
DependencyMainCatch ==
    /\ cliState = "running"
    /\ cliProgram = "DependencyExtractor"
    /\ pc = "done"
    /\ outcome = "thrown"
    /\ cliStderr' = Append(cliStderr, "Error")
    /\ cliExit' = 1
    /\ cliState' = "exited"
    /\ UNCHANGED << cliProgram, cliArgs, cliStdout >>
    /\ UNCHANGED << engineVars, resolverVars, metricVars, firstRun, selectVars, appVars >>

\* MetricExtractor.main with args.length != 1: usage on System.err and
\* return.
MetricMainUsage ==
    /\ cliState = "main"
    /\ cliProgram = "MetricExtractor"
    /\ Len(cliArgs) # 1
    /\ cliStderr' = Append(cliStderr, "Uso")
    /\ cliExit' = 0
    /\ cliState' = "exited"
    /\ UNCHANGED << cliProgram, cliArgs, cliStdout >>
    /\ UNCHANGED << engineVars, resolverVars, metricVars, firstRun, selectVars, appVars >>

\* projectDir = new File(args[0])
MetricMainProject ==
    /\ cliState = "main"
    /\ cliProgram = "MetricExtractor"
    /\ Len(cliArgs) = 1
    /\ mProject' = cliArgs[1]
    /\ mpc' = "start"
    /\ cliState' = "running"
    /\ UNCHANGED << cliProgram, cliArgs, cliStdout, cliStderr, cliExit >>
    /\ UNCHANGED << mJavaFiles, mIndex, metrics, mErr >>
    /\ UNCHANGED << engineVars, resolverVars, firstRun, selectVars, appVars >>

\* main returns: after one of the two early returns, with nothing on
\* System.out but the progress lines, or after the metrics were printed.
MetricMainReturn ==
    /\ cliState = "running"
    /\ cliProgram = "MetricExtractor"
    /\ mpc = "done"
    /\ cliStdout' = IF mErr # <<>> /\ mErr[1] \in { "not a valid directory", "no .java file found" }
                    THEN cliStdout
                    ELSE Append(cliStdout, metrics)
    /\ cliStderr' = cliStderr \o mErr
    /\ cliExit' = 0
    /\ cliState' = "exited"
    /\ UNCHANGED << cliProgram, cliArgs >>
    /\ UNCHANGED << engineVars, resolverVars, metricVars, firstRun, selectVars, appVars >>

NextCli ==
    \/ DependencyMainUsage
    \/ DependencyMainAnalyze
    \/ Next
    \/ DependencyMainPrint
    \/ DependencyMainCatch
    \/ MetricMainUsage
    \/ MetricMainProject
    \/ NextMetrics
    \/ MetricMainReturn

SpecCli == InitCli /\ [][NextCli]_vars

\* The command line names one path and an existing directory lies there.
ValidProjectPath == Len(cliArgs) = 1 /\ cliArgs[1].exists /\ cliArgs[1].directory

\* C22: given one valid project path the program prints the analysis to
\* standard output and exits with status 0; given no argument or an invalid
\* path it prints a diagnostic to standard error, prints no analysis and
\* exits with a status other than 0.
C22_ExitStatusContract ==
    cliState = "exited" =>
        /\ ValidProjectPath => (cliStdout # <<>> /\ cliExit = 0)
        /\ ~ValidProjectPath => (cliStderr # <<>> /\ cliStdout = <<>> /\ cliExit # 0)

(***************************************************************************)
(* The steps of resolveType, one by one                                    *)
(***************************************************************************)
\* The exclusion list: the keywords of the primitive types, void, and the
\* short names String and Object.
ExclusionList ==
    { "int", "long", "double", "float", "boolean", "char",
      "byte", "short", "void", "String", "Object" }

\* What the steps after the exclusion step return for a normalised name.
AfterExclusion(typeName, currentPackage, imports, m) ==
    IF typeName \in keySet(m) THEN typeName
    ELSE IF QualifiedIn(currentPackage, typeName) \in keySet(m)
         THEN QualifiedIn(currentPackage, typeName)
    ELSE CheckImports(typeName, imports, m)

QualifyingImports(typeName, imports, m) ==
    { x \in 1..Len(imports) :
        EndsWith(imports[x], "." \o typeName) /\ imports[x] \in keySet(m) }

\* C24: when a name that passed the exclusion step is no registry key, and
\* neither is its qualification by the current package, the result is the
\* first import in declaration order that ends with "." and the name and is
\* a registry key; imports that only match the suffix are skipped; without
\* such an import the name is unresolved.
C24_FirstQualifyingImport ==
    ResolveReturned =>
        LET typeName   == Normalize(rTypeName)
            qualifying == QualifyingImports(typeName, rImports, rClassMap)
        IN  (/\ ~Excluded(typeName)
             /\ typeName \notin keySet(rClassMap)
             /\ QualifiedIn(rPackage, typeName) \notin keySet(rClassMap))
            => IF qualifying = {} THEN rReturn = Null
               ELSE \E x \in qualifying :
                       /\ \A y \in qualifying : x <= y
                       /\ rReturn = rImports[x]

\* The import x.A matches the suffix but is no registry key, the import q.A
\* after it is one: the name A resolves to q.A.
C24_Witness ==
    /\ ResolveReturned
    /\ Normalize(rTypeName) = "A"
    /\ rPackage = ""
    /\ rImports = <<"x.A", "q.A">>
    /\ "A" \notin keySet(rClassMap)
    /\ "q.A" \in keySet(rClassMap)
    /\ rReturn = "q.A"

(***************************************************************************)
(* The registry after pass 1, and self-edges                               *)
(***************************************************************************)
\* Pass 1 has just ended.
RegistryBuilt == pc = "pass2" /\ i = 1 /\ j = 1

\* The declarations of the parsed files, as <<file, position>>.
Declarations ==
    { d \in (1..Len(javaFiles)) \X (1..2) :
        javaFiles[d[1]].parses /\ d[2] <= Len(javaFiles[d[1]].classes) }

NameOf(d) ==
    QualifiedIn(javaFiles[d[1]].packageName, javaFiles[d[1]].classes[d[2]].name)

\* Declaration d comes after declaration e in the order of pass 1.
Later(d, e) == d[1] > e[1] \/ (d[1] = e[1] /\ d[2] > e[2])

\* C25: after pass 1 the registry holds exactly one record per distinct
\* fully-qualified name declared in the parsed files, the name being the
\* package, "." and the simple name, or the simple name alone in the default
\* package; of several declarations of one name the record is that of the
\* declaration processed last.
C25_OneRecordPerName ==
    RegistryBuilt =>
        /\ keySet(classMap) = { NameOf(d) : d \in Declarations }
        /\ Len(classMap) = Cardinality({ NameOf(d) : d \in Declarations })
        /\ \A d \in Declarations :
              (\A e \in Declarations : NameOf(e) = NameOf(d) => ~Later(e, d))
              => LET record == get(classMap, NameOf(d))
                     cls    == javaFiles[d[1]].classes[d[2]]
                 IN  /\ record.simpleName = cls.name
                     /\ record.packageName = javaFiles[d[1]].packageName
                     /\ record.fieldCount = Len(cls.fields)
                     /\ record.methodCount = Len(cls.methods)

\* Two files declare the same name with different numbers of fields; the
\* record carries the number of the second file.
C25_Witness ==
    /\ RegistryBuilt
    /\ Len(javaFiles) = 2
    /\ Declarations = { <<1, 1>>, <<2, 1>> }
    /\ NameOf(<<1, 1>>) = NameOf(<<2, 1>>)
    /\ Len(javaFiles[1].classes[1].fields) # Len(javaFiles[2].classes[1].fields)
    /\ Len(classMap) = 1
    /\ classMap[1].fieldCount = Len(javaFiles[2].classes[1].fields)

\* C26: a class with a declared type that resolves to the class itself has
\* its own name once in dependsOn and once in dependedByClasses, and the
\* self-edge counts one in couplingOut and one in couplingIn.
C26_SelfEdgeKept ==
    Returned =>
        LET complete == DeclaredRegistry(javaFiles)
        IN  \A d \in Reported :
                LET cu     == javaFiles[d[1]]
                    cls    == cu.classes[d[2]]
                    name   == NameOf(d)
                    record == ResultOf(d[1], d[2])
                IN  (\E r \in Range(TypeReferences(cls)) :
                        resolveType(r, cu.packageName, cu.imports, complete) = name)
                    => /\ CountOf(record.dependsOn, name) = 1
                       /\ CountOf(record.dependedByClasses, name) = 1
                       /\ record.couplingOut
                             = Cardinality(Range(record.dependsOn) \ {name}) + 1
                       /\ record.couplingIn
                             = Cardinality(Range(record.dependedByClasses) \ {name}) + 1

\* The one class of a project has a field of its own type: it depends on
\* itself and is depended on by itself.
C26_Witness ==
    /\ Returned
    /\ Len(result.classes) = 1
    /\ result.classes[1].dependsOn = << result.classes[1].className >>
    /\ result.classes[1].dependedByClasses = << result.classes[1].className >>
    /\ result.classes[1].couplingOut = 1
    /\ result.classes[1].couplingIn = 1

(***************************************************************************)
(* The desktop application: start screen, analysis, export                 *)
(***************************************************************************)
\* Bounds of the calls in flight and of the exports of one session.
MaxPickers == 1
MaxAnalyses == 2
MaxExports == 1

\* seq without its k-th element.
Without(seq, k) == SubSeq(seq, 1, k - 1) \o SubSeq(seq, k + 1, Len(seq))

\* The elements of seq, each marked as belonging to a page no longer loaded.
Orphaned(seq) == [ k \in 1..Len(seq) |-> [ seq[k] EXCEPT !.live = FALSE ] ]

\* The API of the preload script.
PreloadAPI == { "openFolderPicker", "analyzeProject" }

\* The API the renderer declares on window.electronAPI.
DeclaredAPI == { "openFolderPicker", "analyzeProject", "exportResults" }

\* JSON.stringify (gson.toJson) and JSON.parse: a text that carries a value.
JSONstringify(value) == << "json", value >>

JSONparse(text) == text[2]

\* What dialog.showOpenDialog can resolve to.
OpenDialogResults ==
    { [ canceled |-> TRUE, filePaths |-> <<>> ],
      [ canceled |-> FALSE, filePaths |-> << "/home/p" >> ],
      [ canceled |-> FALSE, filePaths |-> << "/home/q" >> ] }

\* What dialog.showSaveDialog can resolve to.
SaveDialogResults ==
    { [ canceled |-> TRUE, filePath |-> "" ],
      [ canceled |-> FALSE, filePath |-> "/out/a" ],
      [ canceled |-> FALSE, filePath |-> "/out/b" ] }

\* What the analysis prints for a project: no class, or one class.
AppResults ==
    { NewAnalysisResult,
      [ NewAnalysisResult EXCEPT
          !.totalClasses = 1,
          !.classes = << NewClassInfo([ packageName |-> "p" ],
                                      [ name |-> "A", methods |-> <<>>,
                                        fields |-> <<>> ]) >> ] }

\* ipcMain.handle("open-folder-picker"): the value returned for a dialog result.
OpenFolderPicker(d) ==
    IF d.canceled \/ Len(d.filePaths) = 0 THEN Null ELSE d.filePaths[1]

\* A function that has thrown, and one that has returned.
Thrown == [ thrown |-> TRUE ]

ReturnedValue(value) == [ thrown |-> FALSE, value |-> value ]

Quoted(field) == "\"" \o field \o "\""

\* convertToCSV: one line per element of data.dependencies after the header;
\* iterating over a value without that property throws a TypeError.
convertToCSV(data) ==
    IF "dependencies" \notin DOMAIN data THEN Thrown
    ELSE ReturnedValue(
           << "GroupId,ArtifactId,Version,Scope,ClassesAcopladas,Status,Imports" >>
           \o [ k \in 1..Len(data.dependencies) |->
                  LET dep == data.dependencies[k]
                  IN  << Quoted(dep.groupId), Quoted(dep.artifactId),
                         Quoted(IF dep.version = "" THEN "N/A" ELSE dep.version),
                         Quoted(dep.scope),
                         Quoted(ToString(Len(dep.usedByClasses))),
                         Quoted(IF Len(dep.usedByClasses) > 0
                                THEN "Usado" ELSE "Nao Usado"),
                         dep.usedImports >> ])

\* ipcMain.handle('export-results') from the dialog result on: what is
\* written, and what the call returns or that it throws.
ExportResults(data, format, d) ==
    IF d.canceled \/ d.filePath = ""
    THEN [ thrown |-> FALSE, value |-> Null, wrote |-> FALSE, content |-> Null ]
    ELSE LET content == IF format = "csv"
                        THEN convertToCSV(JSONparse(data))
                        ELSE ReturnedValue(data)
         IN  IF content.thrown
             THEN [ thrown |-> TRUE, value |-> Null, wrote |-> FALSE, content |-> Null ]
             ELSE [ thrown |-> FALSE, value |-> d.filePath, wrote |-> TRUE,
                    content |-> content.value ]

\* fs.writeFileSync
WriteFileSync(fs, path, content) ==
    { f \in fs : f.path # path } \cup { [ path |-> path, content |-> content ] }

\* The page as loaded.
StartScreen ==
    /\ screen = "start"
    /\ selectedPath = Null
    /\ pathSpan = "Nenhum projeto selecionado"
    /\ loadBtn = [ disabled |-> TRUE, textContent |-> "Carregar projeto" ]
    /\ displayed = Null
    /\ alerts = ""

InitApp ==
    /\ StartScreen
    /\ electronAPI \in { PreloadAPI, DeclaredAPI }
    /\ pickers = <<>>
    /\ analyses = <<>>
    /\ exportCalls = <<>>
    /\ disk = {}
    /\ exportLog = <<>>
    /\ project = [ exists |-> FALSE, files |-> <<>> ]
    /\ pc = "done"
    /\ javaFiles = <<>>
    /\ i = 1
    /\ j = 1
    /\ classMap = <<>>
    /\ classList = <<>>
    /\ result = NewAnalysisResult
    /\ outcome = "returned"
    /\ warnings = <<>>
    /\ assigned = <<>>
    /\ ResolverIdle
    /\ MetricsIdle
    /\ firstRun = NoEarlierRun
    /\ SelectIdle
    /\ CliIdle

notApp == << engineVars, resolverVars, metricVars, firstRun, selectVars, cliVars >>

\* selectBtn click: openFolderPicker is called; the handler waits.
SelectBtnClick ==
    /\ screen = "start"
    /\ Len(pickers) < MaxPickers
    /\ pickers' = Append(pickers, [ live |-> TRUE ])
    /\ UNCHANGED << screen, selectedPath, pathSpan, loadBtn, analyses, displayed,
                    electronAPI, exportCalls, disk, exportLog, alerts >>
    /\ UNCHANGED notApp

\* A folder dialog closes: the main process returns the folder or null, and
\* the selectBtn handler goes on.
OpenFolderPickerReturns ==
    \E k \in 1..Len(pickers), d \in OpenDialogResults :
        LET picked == OpenFolderPicker(d)
        IN  /\ pickers' = Without(pickers, k)
            /\ IF ~pickers[k].live
               THEN UNCHANGED << selectedPath, pathSpan, loadBtn >>
               ELSE IF picked # Null
               THEN /\ selectedPath' = picked
                    /\ pathSpan' = picked
                    /\ loadBtn' = [ loadBtn EXCEPT !.disabled = FALSE ]
               ELSE /\ selectedPath' = Null
                    /\ pathSpan' = "Nenhum projeto selecionado"
                    /\ loadBtn' = [ loadBtn EXCEPT !.disabled = TRUE ]
            /\ UNCHANGED << screen, analyses, displayed, electronAPI, exportCalls,
                            disk, exportLog, alerts >>
            /\ UNCHANGED notApp

\* loadBtn click (a disabled button receives no click): without a path
\* nothing happens; otherwise the button is disabled and analyzeProject is
\* called with the path.
LoadBtnClick ==
    /\ screen = "start"
    /\ ~loadBtn.disabled
    /\ Len(analyses) < MaxAnalyses
    /\ IF selectedPath = Null
       THEN UNCHANGED << loadBtn, analyses >>
       ELSE /\ loadBtn' = [ disabled |-> TRUE, textContent |-> "Analisando..." ]
            /\ analyses' = Append(analyses, [ path |-> selectedPath, live |-> TRUE ])
    /\ UNCHANGED << screen, selectedPath, pathSpan, pickers, displayed,
                    electronAPI, exportCalls, disk, exportLog, alerts >>
    /\ UNCHANGED notApp

\* The jar has exited with status 0: the handler returns its output, and
\* the renderer parses and displays it.
AnalyzeProjectResolves ==
    \E k \in 1..Len(analyses), r \in AppResults :
        LET stdout == JSONstringify(r)
        IN  /\ analyses' = Without(analyses, k)
            /\ IF analyses[k].live
               THEN /\ displayed' = JSONparse(stdout)
                    /\ screen' = "results"
               ELSE UNCHANGED << displayed, screen >>
            /\ UNCHANGED << selectedPath, pathSpan, loadBtn, pickers, electronAPI,
                            exportCalls, disk, exportLog, alerts >>
            /\ UNCHANGED notApp

\* The jar has failed: the handler throws, and the renderer's catch block
\* enables the button again and alerts.
AnalyzeProjectRejects ==
    \E k \in 1..Len(analyses) :
        /\ analyses' = Without(analyses, k)
        /\ IF analyses[k].live
           THEN /\ loadBtn' = [ disabled |-> FALSE, textContent |-> "Carregar projeto" ]
                /\ alerts' = "Falha ao analisar projeto: Failed to analyze project"
           ELSE UNCHANGED << loadBtn, alerts >>
        /\ UNCHANGED << screen, selectedPath, pathSpan, pickers, displayed,
                        electronAPI, exportCalls, disk, exportLog >>
        /\ UNCHANGED notApp

\* exportData: a click on one of the two export buttons of the results.
ExportData ==
    \E format \in { "json", "csv" } :
        /\ screen = "results"
        /\ Len(exportCalls) + Len(exportLog) < MaxExports
        /\ IF "exportResults" \in electronAPI
           THEN /\ exportCalls' = Append(exportCalls,
                                         [ data |-> JSONstringify(displayed),
                                           format |-> format, live |-> TRUE ])
                /\ UNCHANGED alerts
           ELSE /\ alerts' = "Falha ao exportar: exportResults is not a function"
                /\ UNCHANGED exportCalls
        /\ UNCHANGED << screen, selectedPath, pathSpan, loadBtn, pickers, analyses,
                        displayed, electronAPI, disk, exportLog >>
        /\ UNCHANGED notApp

\* A save dialog closes: the export-results handler finishes, and exportData
\* goes on with what it returned.
ExportResultsReturns ==
    \E k \in 1..Len(exportCalls), d \in SaveDialogResults :
        LET call == exportCalls[k]
            done == ExportResults(call.data, call.format, d)
        IN  /\ exportCalls' = Without(exportCalls, k)
            /\ disk' = IF done.wrote
                       THEN WriteFileSync(disk, d.filePath, done.content)
                       ELSE disk
            /\ exportLog' = Append(exportLog,
                                   [ format |-> call.format, dialog |-> d,
                                     thrown |-> done.thrown, returned |-> done.value,
                                     wrote |-> done.wrote ])
            /\ alerts' = IF ~call.live THEN alerts
                         ELSE IF done.thrown
                         THEN "Falha ao exportar: Failed to export results"
                         ELSE IF done.value # Null
                         THEN "Arquivo exportado com sucesso"
                         ELSE alerts
            /\ UNCHANGED << screen, selectedPath, pathSpan, loadBtn, pickers, analyses,
                            displayed, electronAPI >>
            /\ UNCHANGED notApp

\* backBtn click: window.location.reload(). The page starts again; the calls
\* in flight go on in the main process, their answers reach no handler.
BackBtnClick ==
    /\ screen = "results"
    /\ screen' = "start"
    /\ selectedPath' = Null
    /\ pathSpan' = "Nenhum projeto selecionado"
    /\ loadBtn' = [ disabled |-> TRUE, textContent |-> "Carregar projeto" ]
    /\ displayed' = Null
    /\ alerts' = ""
    /\ pickers' = Orphaned(pickers)
    /\ analyses' = Orphaned(analyses)
    /\ exportCalls' = Orphaned(exportCalls)
    /\ UNCHANGED << electronAPI, disk, exportLog >>
    /\ UNCHANGED notApp

NextApp ==
    \/ SelectBtnClick
    \/ OpenFolderPickerReturns
    \/ LoadBtnClick
    \/ AnalyzeProjectResolves
    \/ AnalyzeProjectRejects
    \/ ExportData
    \/ ExportResultsReturns
    \/ BackBtnClick

SpecApp == InitApp /\ [][NextApp]_vars

\* C27: on the start screen the load button is enabled only while a path is
\* selected.
C27_EnabledOnlyWithPath ==
    (screen = "start" /\ ~loadBtn.disabled) => selectedPath # Null

\* C28: at most one analyze-project call is in flight.
C28_OneAnalysisInFlight == Len(analyses) <= 1

C29_ResolveTypeIdempotent ==
    (ResolveReturned /\ rReturn # Null) =>
        \A pkg \in ResolverPackages, imps \in SeqsUpTo(ResolverImports, MaxImports) :
            resolveType(rReturn, pkg, imps, rClassMap) = rReturn


====
